---- MODULE Spec2Model ----
(***************************************************************************)
(* Asynchronous execution fabric of docify: the accept path               *)
(* (api/conversations.py send_message), the Celery generation job         *)
(* (tasks/message_generation.py generate_response_async), the poll        *)
(* endpoint (get_message_status), the WebSocket stream endpoint           *)
(* (api/websocket.py websocket_stream_message) and the Redis token        *)
(* stream (stream_message_token / MessageStreamCache).                    *)
(*                                                                         *)
(* One conversation with one assistant message "m1" is modelled; every    *)
(* database commit, broker publish and Redis write is one atomic step.    *)
(***************************************************************************)
EXTENDS Integers, Sequences, FiniteSets, TLC

\* ------------------------------------------------------------------ bounds
\* worker losses (kill -9, OOM) followed by broker redelivery that are explored
MaxCrashes == 1
\* tokens appended to the token stream by stream_message_token
MaxTokenWrites == 2
\* polling rounds of the stream endpoint before its wall-clock cap
\* (max_wait / poll_interval = 600 / 0.5 rounds in the source)
MaxPolls == 1

\* transitions into a terminal status that the poll-endpoint client counts
MaxTerminalsSeen == 2

\* ------------------------------------------------------- program constants
\* @shared_task(bind=True, max_retries=3)
max_retries == 3

NULL == "<null>"
MsgId == "m1"
TaskId == "task-1"
Tokens == {"tokA", "tokB"}
Terminal == {"complete", "error"}

\* ------------------------------------------------------------ redis keys
\* stream_message_token: stream_key = f"message:{message_id}:tokens"
WriterTokensKey(id) == <<"message", id, "tokens">>
\* MessageStreamCache.get_tokens: key = f"msg:{message_id}:tokens"
ReaderTokensKey(id) == <<"msg", id, "tokens">>
ListKeys == {WriterTokensKey(MsgId), ReaderTokensKey(MsgId)}

\* ------------------------------------------------------------ exceptions
\* exceptions that escape generate_response into the task's handler:
\* PromptType(prompt_type) on an unknown prompt type (ValueError), the
\* Celery soft time limit (SoftTimeLimitExceeded, raised without arguments),
\* and a Redis failure of the result cache write (ConnectionError)
PipelineExceptions == {"ValueError", "SoftTimeLimitExceeded"}
\* str(exc), as stored in message.error_message
ExcStr(e) ==
    CASE e = "ValueError" -> "'bogus' is not a valid PromptType"
      [] e = "SoftTimeLimitExceeded" -> ""
      [] e = "ConnectionError" -> "Error connecting to redis"
      [] OTHER -> NULL

\* ------------------------------------------------------------- pipeline
\* MessageGenerationService.generate_response with save_message=False:
\* the GeneratedMessage it returns, by outcome of retrieval and of the LLM call
GenerateResponse(searchEmpty, llmOk, verify) ==
    IF searchEmpty
    THEN [content |-> "no_context", sources |-> {}, citations |-> "{}",
          tokens_used |-> 0, warning |-> "No relevant documents found for this query",
          llm_called |-> FALSE, llm_failed |-> FALSE, verifier_ran |-> FALSE]
    ELSE IF ~llmOk
    THEN [content |-> "I encountered an error generating a response", sources |-> {},
          citations |-> "{}", tokens_used |-> 0, warning |-> "LLM call failed",
          llm_called |-> TRUE, llm_failed |-> TRUE, verifier_ran |-> FALSE]
    ELSE [content |-> "answer", sources |-> {"r1"},
          citations |-> IF verify THEN "verification" ELSE "{}",
          \* len(full_prompt) // 4 + len(llm_response) // 4
          tokens_used |-> (8 \div 4) + (4 \div 4), warning |-> "",
          llm_called |-> TRUE, llm_failed |-> FALSE, verifier_ran |-> verify]

NoResult == [content |-> NULL, sources |-> {}, citations |-> "{}", tokens_used |-> 0,
             warning |-> "", llm_called |-> FALSE, llm_failed |-> FALSE,
             verifier_ran |-> FALSE]

\* GET of a Redis key that is not set
NoCachedResult == [status |-> NULL, content |-> NULL, sources |-> {}, citations |-> "{}"]

\* -------------------------------------------------------------- state
VARIABLES
    message,        \* the assistant Message row (models.Message)
    rows,           \* number of message rows: [user, assistant]
    conversation,   \* Conversation row: message_count, token_usage
    aPc,            \* send_message handler: position
    aResponse,      \* send_message handler: the 202 response body
    enqueued,       \* number of generate_response_async.delay() calls made
    job,            \* the broker's record of the generation job
    wPc,            \* worker: position in generate_response_async
    wResult,        \* worker: local variable result
    wExc,           \* worker: exception being handled
    redisList,      \* Redis lists by key
    redisResult,    \* Redis key message:{id}:result
    hist,           \* history: counters over the life of the job
    poll,           \* poll-endpoint client: last status seen, transitions seen
    ws,             \* stream endpoint session
    gen,            \* one call of MessageGenerationService.generate_response
    hs,             \* one call of SearchService.hybrid_search
    ca,             \* one call of ContextAssemblyService.assemble_context
    cv,             \* one call of CitationVerificationService.verify_response
    rg,             \* the messages of a conversation under regenerate_response
    rr,             \* one call of ReRankingService.rerank
    qe,             \* one call of QueryExpansionService.combine_variants
    cx              \* one call of assemble_context on results with conflicts

vars == <<message, rows, conversation, aPc, aResponse, enqueued, job, wPc, wResult,
          wExc, redisList, redisResult, hist, poll, ws, gen, hs, ca, cv, rg,
          rr, qe, cx>>

acceptVars == <<aPc, aResponse, enqueued, rows>>
workerVars == <<wPc, wResult, wExc>>
\* the synchronous services, which the execution fabric does not touch
serviceVars == <<gen, hs, ca, cv, rg, rr, qe, cx>>
\* the services of conflict handling and query expansion
otherServices == <<rr, qe, cx>>
\* the execution fabric, which a single service call does not touch
fabricVars == <<message, rows, conversation, aPc, aResponse, enqueued, job, wPc, wResult,
                wExc, redisList, redisResult, hist, poll, ws>>

\* a frame pushed with websocket.send_json; fields a frame type does not
\* carry are left at their defaults
Frame(type) == [type |-> type, status |-> "", content |-> "", sources |-> {},
                citations |-> "{}", token |-> "", token_count |-> 0]

InitFabric ==
    /\ message = [exists |-> FALSE, status |-> NULL, content |-> NULL, sources |-> {},
                  citations |-> "{}", tokens_used |-> NULL, error_message |-> NULL,
                  generation_task_id |-> NULL]
    /\ rows = [user |-> 0, assistant |-> 0]
    /\ conversation = [message_count |-> 0, token_usage |-> 0]
    /\ aPc = "idle"
    /\ aResponse = [message_id |-> NULL, content |-> NULL, status |-> NULL]
    /\ enqueued = 0
    /\ job = [state |-> "none", id |-> NULL, retries |-> 0, countdown |-> 0,
              redelivered |-> FALSE, verify_citations |-> TRUE]
    /\ wPc = "idle"
    /\ wResult = NoResult
    /\ wExc = NULL
    /\ redisList = [k \in ListKeys |-> <<>>]
    /\ redisResult = NoCachedResult
    /\ hist = [completes |-> 0, crashes |-> 0, attempts |-> 0, errWriteOk |-> TRUE,
               createdStatus |-> NULL]
    /\ poll = [last |-> NULL, terminals |-> 0]
    /\ ws = [pc |-> "init", frames |-> <<>>, previous_token_count |-> 0, elapsed |-> 0,
             exc |-> NULL, connLen |-> 0, seenLen |-> 0]

\* no service call in progress
Off == [pc |-> "off"]
OtherServicesOff == rr = Off /\ qe = Off /\ cx = Off

Init ==
    /\ InitFabric
    /\ gen = Off /\ hs = Off /\ ca = Off /\ cv = Off /\ rg = Off /\ OtherServicesOff

\* ------------------------------------------------- accept path (send_message)
\* lines 253-280: user message, assistant message with status pending, commit
A_Create ==
    /\ aPc = "idle"
    /\ message' = [message EXCEPT !.exists = TRUE, !.status = "pending", !.content = ""]
    /\ rows' = [user |-> rows.user + 1, assistant |-> rows.assistant + 1]
    /\ hist' = [hist EXCEPT !.createdStatus = message'.status]
    /\ aPc' = "created"
    /\ UNCHANGED serviceVars
    /\ UNCHANGED <<conversation, aResponse, enqueued, job, workerVars, redisList,
                   redisResult, poll, ws>>

\* lines 282-283: conversation.message_count += 1; commit
A_Count ==
    /\ aPc = "created"
    /\ conversation' = [conversation EXCEPT !.message_count = @ + 1]
    /\ aPc' = "counted"
    /\ UNCHANGED serviceVars
    /\ UNCHANGED <<message, rows, aResponse, enqueued, job, workerVars, redisList,
                   redisResult, hist, poll, ws>>

\* lines 285-299: task = generate_response_async.delay(...); the broker may be
\* unreachable, and then the handler ends with an exception. The request
\* carries verify_citations at its schema default (True)
A_Enqueue ==
    /\ aPc = "counted"
    /\ \E brokerUp \in BOOLEAN, verify \in {TRUE} :
        IF brokerUp
        THEN /\ job' = [state |-> "queued", id |-> TaskId, retries |-> 0,
                        countdown |-> 0, redelivered |-> FALSE,
                        verify_citations |-> verify]
             /\ enqueued' = enqueued + 1
             /\ aPc' = "enqueued"
        ELSE /\ aPc' = "failed"
             /\ UNCHANGED <<job, enqueued>>
    /\ UNCHANGED serviceVars
    /\ UNCHANGED <<message, rows, conversation, aResponse, workerVars, redisList,
                   redisResult, hist, poll, ws>>

\* the handler returning without recording the task id
A_StoreTaskId_Skipped ==
    /\ aPc = "enqueued"
    /\ aPc' = "stored"
    /\ UNCHANGED serviceVars
    /\ UNCHANGED <<message, rows, conversation, aResponse, enqueued, job, workerVars,
                   redisList, redisResult, hist, poll, ws>>

\* lines 301-303: assistant_message.generation_task_id = task.id; commit
\* (the UPDATE writes the one modified column)
A_StoreTaskId ==
    /\ aPc = "enqueued"
    /\ message' = [message EXCEPT !.generation_task_id = job.id]
    /\ aPc' = "stored"
    /\ UNCHANGED serviceVars
    /\ UNCHANGED <<rows, conversation, aResponse, enqueued, job, workerVars, redisList,
                   redisResult, hist, poll, ws>>

\* lines 305-313: return GeneratedMessageResponse(status="pending", ...)
A_Return ==
    /\ aPc = "stored"
    /\ aResponse' = [message_id |-> MsgId, content |-> "", status |-> "pending"]
    /\ aPc' = "returned"
    /\ UNCHANGED serviceVars
    /\ UNCHANGED <<message, rows, conversation, enqueued, job, workerVars, redisList,
                   redisResult, hist, poll, ws>>

Accept == A_Create \/ A_Count \/ A_Enqueue \/ A_StoreTaskId \/ A_Return

\* ------------------------------------- worker (generate_response_async)
RECURSIVE Pow2(_)
Pow2(n) == IF n = 0 THEN 1 ELSE 2 * Pow2(n - 1)

\* giving up one retry too late
RetriesExhausted_OffByOne(retries) == retries > max_retries

\* self.retry with max_retries=3: Celery gives up (re-raises exc) when
\* request.retries + 1 > max_retries
RetriesExhausted(retries) == retries + 1 > max_retries

\* lines 59-71: the broker hands the job to the worker (not acknowledged:
\* task_acks_late); the task marks the message streaming and records its own id
W_Start ==
    /\ wPc = "idle"
    /\ job.state = "queued"
    /\ IF ~message.exists
       THEN \* lines 65-67: return {"status": "error"}; the job is acknowledged
            /\ job' = [job EXCEPT !.state = "succeeded"]
            /\ UNCHANGED <<message, wPc>>
       ELSE /\ message' = [message EXCEPT !.status = "streaming",
                                          !.generation_task_id = job.id]
            /\ job' = [job EXCEPT !.state = "reserved"]
            /\ wPc' = "generate"
    /\ hist' = [hist EXCEPT !.attempts = IF job.redelivered THEN @ ELSE @ + 1,
                            !.errWriteOk = TRUE]
    /\ UNCHANGED serviceVars
    /\ UNCHANGED <<conversation, acceptVars, wResult, wExc, redisList, redisResult,
                   poll, ws>>

\* lines 78-108: run the pipeline; an exception is logged and re-raised
W_Generate ==
    /\ wPc = "generate"
    /\ \/ \E searchEmpty \in BOOLEAN, llmOk \in BOOLEAN :
            /\ wResult' = GenerateResponse(searchEmpty, llmOk, job.verify_citations)
            /\ wPc' = "commit"
            /\ UNCHANGED wExc
       \/ \E e \in PipelineExceptions :
            /\ wExc' = e
            /\ wPc' = "except"
            /\ UNCHANGED wResult
    /\ UNCHANGED serviceVars
    /\ UNCHANGED <<message, conversation, acceptVars, job, redisList, redisResult,
                   hist, poll, ws>>

\* the status committed as complete ahead of the result fields
W_Commit_StatusFirst ==
    /\ wPc = "commit"
    /\ message' = [message EXCEPT !.status = "complete", !.error_message = NULL]
    /\ conversation' = [message_count |-> conversation.message_count + 1,
                        token_usage |-> conversation.token_usage + wResult.tokens_used]
    /\ hist' = [hist EXCEPT !.completes = @ + 1]
    /\ wPc' = "cache"
    /\ UNCHANGED serviceVars
    /\ UNCHANGED <<acceptVars, job, wResult, wExc, redisList, redisResult, poll, ws>>

\* lines 110-128: write the result and status complete, bump the conversation
\* statistics, commit
W_Commit ==
    /\ wPc = "commit"
    /\ message' = [message EXCEPT !.content = wResult.content,
                                  !.sources = wResult.sources,
                                  !.citations = wResult.citations,
                                  !.tokens_used = wResult.tokens_used,
                                  !.status = "complete",
                                  !.error_message = NULL]
    /\ conversation' = [message_count |-> conversation.message_count + 1,
                        token_usage |-> conversation.token_usage + wResult.tokens_used]
    /\ hist' = [hist EXCEPT !.completes = @ + 1]
    /\ wPc' = "cache"
    /\ UNCHANGED serviceVars
    /\ UNCHANGED <<acceptVars, job, wResult, wExc, redisList, redisResult, poll, ws>>

\* lines 130-146: redis_client.setex(f"message:{message_id}:result", 3600, ...);
\* a Redis failure raises into the task's handler
W_Cache ==
    /\ wPc = "cache"
    /\ \E redisUp \in BOOLEAN :
        IF redisUp
        THEN /\ redisResult' = [status |-> "complete", content |-> wResult.content,
                                sources |-> wResult.sources,
                                citations |-> wResult.citations]
             /\ wPc' = "return"
             /\ UNCHANGED <<wExc, hist>>
        ELSE /\ wExc' = "ConnectionError"
             /\ wPc' = "except"
             /\ UNCHANGED <<redisResult, hist>>
    /\ UNCHANGED serviceVars
    /\ UNCHANGED <<message, conversation, acceptVars, job, wResult, redisList, poll, ws>>

\* lines 148-155 and 173-174: return the summary; the job is acknowledged
W_Return ==
    /\ wPc = "return"
    /\ job' = [job EXCEPT !.state = "succeeded"]
    /\ wPc' = "idle"
    /\ wResult' = NoResult
    /\ UNCHANGED serviceVars
    /\ UNCHANGED <<message, conversation, acceptVars, wExc, redisList, redisResult,
                   hist, poll, ws>>

\* lines 157-171: record status error (a failure of this write is swallowed),
\* then self.retry(exc=exc, countdown=2 ** self.request.retries): Celery
\* republishes the job with retries + 1 unless retries + 1 > max_retries, in
\* which case it re-raises exc and the job is failed for good
W_Except ==
    /\ wPc = "except"
    /\ \E dbUp \in BOOLEAN :
        /\ message' = IF dbUp /\ message.exists
                      THEN [message EXCEPT !.status = "error",
                                           !.error_message = ExcStr(wExc)]
                      ELSE message
        /\ hist' = [hist EXCEPT !.errWriteOk = dbUp]
    /\ job' = IF RetriesExhausted(job.retries)
              THEN [job EXCEPT !.state = "failed"]
              ELSE [job EXCEPT !.state = "queued", !.retries = @ + 1,
                               !.countdown = Pow2(job.retries),
                               !.redelivered = FALSE]
    /\ wPc' = "idle"
    /\ wResult' = NoResult
    /\ wExc' = NULL
    /\ UNCHANGED serviceVars
    /\ UNCHANGED <<conversation, acceptVars, redisList, redisResult, poll, ws>>

\* celery_app.py lines 37-38 (task_acks_late, task_reject_on_worker_lost): the
\* worker process is lost anywhere before the acknowledgment; the broker
\* requeues the job unchanged
W_Crash ==
    /\ wPc # "idle"
    /\ hist.crashes < MaxCrashes
    /\ job' = [job EXCEPT !.state = "queued", !.redelivered = TRUE]
    /\ hist' = [hist EXCEPT !.crashes = @ + 1]
    /\ wPc' = "idle"
    /\ wResult' = NoResult
    /\ wExc' = NULL
    /\ UNCHANGED serviceVars
    /\ UNCHANGED <<message, conversation, acceptVars, redisList, redisResult, poll, ws>>

Worker == W_Start \/ W_Generate \/ W_Commit \/ W_Cache \/ W_Return \/ W_Except \/ W_Crash

\* ------------------------------------------ poll endpoint (get_message_status)
\* a client samples GET .../messages/{id}/status and tracks what it sees
Poll ==
    /\ message.exists
    /\ poll.terminals < MaxTerminalsSeen
    /\ poll' = [last |-> message.status,
                terminals |-> IF message.status \in Terminal /\ poll.last # message.status
                              THEN poll.terminals + 1 ELSE poll.terminals]
    /\ UNCHANGED serviceVars
    /\ UNCHANGED <<message, conversation, acceptVars, job, workerVars, redisList,
                   redisResult, hist, ws>>

\* ------------------------------------------- token bus (stream_message_token)
\* lines 177-212: publish on the channel, then rpush the token to the list
\* f"message:{message_id}:tokens" (the publish has no subscriber in the program)
StreamMessageToken ==
    /\ Len(redisList[WriterTokensKey(MsgId)]) < MaxTokenWrites
    /\ \E token \in Tokens :
        redisList' = [redisList EXCEPT ![WriterTokensKey(MsgId)] = Append(@, token)]
    /\ UNCHANGED serviceVars
    /\ UNCHANGED <<message, conversation, acceptVars, job, workerVars, redisResult,
                   hist, poll, ws>>

\* MessageStreamCache.get_tokens(message_id, start): lrange(key, start, -1)
get_tokens(id, start) ==
    LET list == redisList[ReaderTokensKey(id)]
    IN  SubSeq(list, start + 1, Len(list))

\* ------------------------------- stream endpoint (websocket_stream_message)
\* lines 133-139: one token frame per token, counted from previous_token_count
TokenFrames(tokens, previous_token_count) ==
    [i \in 1..Len(tokens) |->
        [Frame("token") EXCEPT !.token = tokens[i],
                               !.token_count = previous_token_count + i]]

\* lines 97-119: look the message up, accept, send the status snapshot
WS_Connect ==
    /\ ws.pc = "init"
    /\ IF ~message.exists
       THEN \* lines 106-108: close(code=4004) without accepting
            ws' = [ws EXCEPT !.pc = "rejected"]
       ELSE ws' = [ws EXCEPT !.pc = "loop",
                             !.frames = <<[Frame("status") EXCEPT
                                              !.status = message.status,
                                              !.content = message.content]>>,
                             !.connLen = Len(redisList[WriterTokensKey(MsgId)])]
    /\ UNCHANGED serviceVars
    /\ UNCHANGED <<message, conversation, acceptVars, job, workerVars, redisList,
                   redisResult, hist, poll>>

\* lines 127-164: one round of the polling loop
WS_Poll ==
    /\ ws.pc = "loop"
    /\ ws.elapsed < MaxPolls
    /\ LET tokens == get_tokens(MsgId, ws.previous_token_count)
           sent == ws.frames \o TokenFrames(tokens, ws.previous_token_count)
           polled == [ws EXCEPT !.previous_token_count = @ + Len(tokens),
                                !.seenLen = Len(redisList[WriterTokensKey(MsgId)])]
       IN  IF message.status = "complete"
           THEN ws' = [polled EXCEPT
                          !.frames = Append(sent, [Frame("complete") EXCEPT
                                                      !.content = message.content,
                                                      !.sources = message.sources,
                                                      !.citations = message.citations]),
                          !.pc = "closing"]
           ELSE IF message.status = "error"
           THEN ws' = [polled EXCEPT
                          !.frames = Append(sent, [Frame("error") EXCEPT
                                !.content = IF message.error_message \in {NULL, ""}
                                            THEN "Unknown error occurred"
                                            ELSE message.error_message]),
                          !.pc = "closing"]
           ELSE \* lines 162-164: sleep(poll_interval); elapsed += poll_interval
                ws' = [polled EXCEPT !.frames = sent, !.elapsed = @ + 1]
    /\ UNCHANGED serviceVars
    /\ UNCHANGED <<message, conversation, acceptVars, job, workerVars, redisList,
                   redisResult, hist, poll>>

\* lines 166-167 and 180-182: after the loop, send {"type": "close"}
WS_Close ==
    /\ \/ ws.pc = "closing"
       \/ ws.pc = "loop" /\ ws.elapsed >= MaxPolls
    /\ ws' = [ws EXCEPT !.frames = Append(@, Frame("close")), !.pc = "done"]
    /\ UNCHANGED serviceVars
    /\ UNCHANGED <<message, conversation, acceptVars, job, workerVars, redisList,
                   redisResult, hist, poll>>

\* lines 169-182: an exception inside the try block (db.refresh, get_tokens or
\* a send): WebSocketDisconnect is logged; any other exception is answered with
\* an error frame, whose own failure is swallowed; no close frame is sent
WS_Exception ==
    /\ ws.pc \in {"loop", "closing"}
    /\ \E exc \in {"WebSocketDisconnect", "Exception"}, sendOk \in BOOLEAN :
        ws' = [ws EXCEPT !.exc = exc,
                         !.frames = IF exc = "Exception" /\ sendOk
                                    THEN Append(@, [Frame("error") EXCEPT
                                                       !.content = "str(e)"])
                                    ELSE @,
                         !.pc = "done"]
    /\ UNCHANGED serviceVars
    /\ UNCHANGED <<message, conversation, acceptVars, job, workerVars, redisList,
                   redisResult, hist, poll>>

Stream == WS_Connect \/ WS_Poll \/ WS_Close \/ WS_Exception

\* ------------------------------------------------------- specifications
\* job life cycle as seen by the poll endpoint
Next == Accept \/ Worker \/ Poll
Spec == Init /\ [][Next]_vars

\* job life cycle as seen by the stream endpoint
NextStream == Accept \/ Worker \/ Stream
SpecStream == Init /\ [][NextStream]_vars

\* token bus and stream endpoint
NextTokens == Accept \/ StreamMessageToken \/ Stream
SpecTokens == Init /\ [][NextTokens]_vars

\* ------------------------------------------------------------- properties
AllExceptions == PipelineExceptions \cup {"ConnectionError"}

\* the results generate_response can return
FinalResults == {GenerateResponse(e, l, v) : e \in BOOLEAN, l \in BOOLEAN, v \in BOOLEAN}

\* the row holds content, sources and citations of one generated result
RowIsFinal ==
    \E r \in FinalResults :
        /\ message.content = r.content
        /\ message.sources = r.sources
        /\ message.citations = r.citations

\* status transitions pending -> streaming -> (complete | error)
Forward == {<<"pending", "streaming">>, <<"streaming", "complete">>,
            <<"streaming", "error">>}

\* C1: over any sequence of executions of the generation job the persisted
\* status of the message only moves forward along
\* pending -> streaming -> (complete | error); it never leaves a terminal
\* status and never goes back to pending or streaming.
C1_StatusMonotonic ==
    [][message.exists /\ message'.status # message.status
          => <<message.status, message'.status>> \in Forward]_vars

\* C2: whenever a reader can observe status complete for the message (the row
\* read by the poll and stream endpoints, a status the poll client has seen,
\* or the result cache), content, sources and citations of a generated result
\* are persisted in the row; complete is never seen with the empty
\* pre-generation content.
C2_CompleteAfterPersist ==
    /\ (message.status = "complete" \/ poll.last = "complete"
           \/ redisResult.status = "complete")
          => RowIsFinal /\ message.content # ""
    /\ redisResult # NoCachedResult
          => /\ redisResult.status = "complete"
             /\ \E r \in FinalResults : redisResult.content = r.content

C2_Witness ==
    /\ message.status = "complete"
    /\ poll.last = "complete"
    /\ redisResult.status = "complete"
    /\ message.content = "answer"

\* C3: re-running the job for the same message ends with status complete or
\* error, and a client of the poll endpoint sees at most one transition into
\* a terminal status over the life of the job.
C3_OneTerminalTransition ==
    /\ job.state \in {"succeeded", "failed"} => message.status \in Terminal
    /\ poll.terminals <= 1

\* C4: if the worker is lost before acknowledging the job, the broker
\* redelivers it, and when the redelivered attempt succeeds the message ends
\* with status complete, the status having become complete exactly once.
C4_CompleteOnceAfterCrash ==
    (hist.crashes >= 1 /\ job.state = "succeeded" /\ job.retries = 0)
        => message.status = "complete" /\ hist.completes = 1

C6_AcceptEnqueuesOnce ==
    aPc = "returned"
        => /\ rows.assistant = 1
           /\ hist.createdStatus = "pending"
           /\ enqueued = 1
           /\ job.state # "none"
           /\ message.generation_task_id = job.id
           /\ aResponse.message_id = MsgId
           /\ aResponse.status = "pending"

\* the handler returned after the worker had already picked the job up
C6_Witness ==
    /\ aPc = "returned"
    /\ message.status = "complete"
    /\ job.state = "succeeded"

\* C7: when the main LLM call fails during a generation job the citation
\* verifier is not run, the message does not get status complete, and the
\* text produced for the failure is not persisted as the message's content.
C7_LlmFailureIsError ==
    wResult.llm_failed
        => /\ ~wResult.verifier_ran
           /\ wPc \in {"cache", "return"}
                 => /\ message.status # "complete"
                    /\ message.content # wResult.content

\* C8: in every stream session whose connection was accepted and that the
\* client did not leave, the last frame pushed is {type: "close"}, whether
\* the session ends on complete, on error, on the wall-clock cap or on an
\* exception raised inside the polling loop.
C8_CloseIsLastFrame ==
    (ws.pc = "done" /\ ws.exc # "WebSocketDisconnect")
        => ws.frames[Len(ws.frames)].type = "close"

\* C9: a client that connects to the stream of a message whose status is
\* already complete (and whose session raises no exception) receives exactly
\* the frames status, complete, close, with no polling sleep before complete.
C9_CompleteOnConnect ==
    (ws.pc = "done" /\ ws.exc = NULL /\ ws.frames[1].status = "complete")
        => /\ [i \in 1..Len(ws.frames) |-> ws.frames[i].type]
                 = <<"status", "complete", "close">>
           /\ ws.elapsed = 0

\* C10: every token appended to message:{id}:tokens while the stream client
\* is connected (after its connect, up to its last polling round) is pushed as
\* a token frame exactly once, in append order, with token_count equal to the
\* token's 1-based position in the stream.
C10_TokensPushedOnce ==
    LET stream == redisList[WriterTokensKey(MsgId)]
        pos(i) == {k \in 1..Len(ws.frames) :
                      ws.frames[k].type = "token" /\ ws.frames[k].token_count = i}
    IN  \A i \in (ws.connLen + 1)..ws.seenLen :
            /\ Cardinality(pos(i)) = 1
            /\ \A k \in pos(i) : ws.frames[k].token = stream[i]
            /\ \A j \in (ws.connLen + 1)..(i - 1) :
                   \A k \in pos(i), l \in pos(j) : l < k


\* ======================================================================
\* The synchronous services behind one request: query expansion and the
\* LLM gateway's sync wrapper, the context assembler and the orchestrator
\* (services/message_generation.py generate_response).
\* ======================================================================

\* ------------------------------------------------------------- bounds
\* search results handed to the orchestrator's pipeline in one request
MaxGenResults == 2

\* ------------------------------------------------- program constants
\* ContextWindow.metadata_tokens = 200
metadata_tokens == 200
\* ContextAssemblyService.CHARS_PER_TOKEN = 4
CHARS_PER_TOKEN == 4
\* _fill_context_window: "if available > 100" before truncating
min_truncated_tokens == 100
\* _categorize_results: primary_threshold = 0.7, in hundredths
primary_threshold == 70
\* expand_query: queries of fewer than 3 characters or 3 words are not expanded
min_expand_chars == 3
min_expand_words == 3

\* ---------------------------------------------- LLM gateway, sync wrapper
\* the event loop that drives the coroutine calling the wrapper: the worker
\* makes its own with asyncio.new_event_loop(); the API process runs under
\* the loop its server installed (asyncio's, or uvloop)
EventLoops == {"asyncio", "uvloop"}

\* call_llm: loop.run_until_complete(llm.call(...)) on the current loop.
\* On a loop that is already running it raises RuntimeError; asyncio's loop
\* raises before the coroutine is scheduled (the provider is never
\* contacted), uvloop schedules the coroutine first (the request goes out
\* detached and its answer is dropped). On an idle loop it returns the text.
call_llm(loop, running) ==
    IF running
    THEN [raised |-> TRUE, contacted |-> (loop = "uvloop")]
    ELSE [raised |-> FALSE, contacted |-> TRUE]

\* ------------------------------------------------------ query expansion
\* a query, by its length in characters (stripped) and its number of words
Queries == {[chars |-> 2, words |-> 1], [chars |-> 7, words |-> 1],
            [chars |-> 11, words |-> 3]}

\* QueryExpansionService.expand_query: the number of variants returned
\* (the original included) and whether the LLM provider was contacted;
\* parsed is the number of lines of the LLM's answer that hold a "?"
expand_query(q, max_variants, loop, running, parsed) ==
    IF q.chars < min_expand_chars \/ q.words < min_expand_words
    THEN [variants |-> 1, contacted |-> FALSE]
    ELSE LET r == call_llm(loop, running)
             kept == IF parsed < max_variants - 1 THEN parsed ELSE max_variants - 1
         IN  IF r.raised \/ kept = 0
             THEN [variants |-> 1, contacted |-> r.contacted]
             ELSE [variants |-> 1 + kept, contacted |-> r.contacted]

\* --------------------------------------------------- context assembler
\* r.final_score or r.score
EffScore(r) == IF r.final_score = 0 THEN r.score ELSE r.final_score

\* sorted(..., key=score, reverse=True): stable, descending
RECURSIVE SortedByScore(_)
SortedByScore(rs) ==
    IF rs = <<>> THEN <<>>
    ELSE LET n == Len(rs)
             rest == SortedByScore(SubSeq(rs, 1, n - 1))
             x == rs[n]
             k == Cardinality({i \in 1..Len(rest) : EffScore(rest[i]) >= EffScore(x)})
         IN  SubSeq(rest, 1, k) \o <<x>> \o SubSeq(rest, k + 1, Len(rest))

\* _deduplicate_results: the first result of every content signature
\* (first 200 characters, lower-cased, stripped) is kept
RECURSIVE DedupBySig(_, _)
DedupBySig(rs, seen) ==
    IF rs = <<>> THEN <<>>
    ELSE IF rs[1].sig \in seen
         THEN DedupBySig(Tail(rs), seen)
         ELSE <<rs[1]>> \o DedupBySig(Tail(rs), seen \cup {rs[1].sig})

deduplicate_results(rs) == IF Len(rs) <= 1 THEN rs ELSE DedupBySig(rs, {})

\* _categorize_results: the results by descending score; the first
\* max(1, n // 3) of them and every one scoring >= 0.7 are primary
categorize_results(rs) ==
    LET scored == SortedByScore(rs)
        n == Len(scored)
        primary_count == IF n \div 3 > 1 THEN n \div 3 ELSE 1
        IsPrimary(i) == i <= primary_count \/ EffScore(scored[i]) >= primary_threshold
    IN  [primary |-> SelectSeq([i \in 1..n |-> [r |-> scored[i], p |-> IsPrimary(i)]],
                               LAMBDA e : e.p),
         supporting |-> SelectSeq([i \in 1..n |-> [r |-> scored[i], p |-> IsPrimary(i)]],
                                  LAMBDA e : ~e.p)]

\* _estimate_tokens: len(text) // CHARS_PER_TOKEN
estimate_tokens(chars) == chars \div CHARS_PER_TOKEN

\* the chunk_data dict of _fill_context_window
ChunkData(r, chars, token_count, truncated) ==
    [chunk_id |-> r.chunk_id, resource_id |-> r.resource_id, chars |-> chars,
     score |-> EffScore(r), token_count |-> token_count, truncated |-> truncated]

\* ContextWindow.available_tokens
available_tokens(max_tokens, used_tokens) == max_tokens - used_tokens - metadata_tokens

\* "if available > 100"
CanTruncate(available) == available > min_truncated_tokens

\* _fill_context_window from the i-th result on, used_tokens being taken
RECURSIVE FillFrom(_, _, _, _)
FillFrom(es, i, used_tokens, max_tokens) ==
    IF i > Len(es) THEN <<>>
    ELSE LET r == es[i].r
             token_count == estimate_tokens(r.chars)
             available == available_tokens(max_tokens, used_tokens)
         IN  IF token_count <= available
             THEN <<ChunkData(r, r.chars, token_count, FALSE)>>
                  \o FillFrom(es, i + 1, used_tokens + token_count, max_tokens)
             ELSE IF CanTruncate(available)
                  \* content[:available * 4] + "...", token_count = available
                  THEN <<ChunkData(r, available * CHARS_PER_TOKEN + 3, available, TRUE)>>
                  ELSE <<>>

fill_context_window(es, max_tokens) == FillFrom(es, 1, 0, max_tokens)

RECURSIVE SumTokens(_)
SumTokens(chunks) ==
    IF chunks = <<>> THEN 0 ELSE chunks[1].token_count + SumTokens(Tail(chunks))

\* AssembledContext()
EmptyContext == [primary_chunks |-> <<>>, supporting_chunks |-> <<>>,
                 total_tokens |-> 0, source_count |-> 0]

\* int(max_tokens * PRIMARY_BUDGET_RATIO)
PrimaryBudget(max_tokens) == (max_tokens * 6) \div 10
\* the supporting window given the whole of max_tokens
SupportingBudget_Whole(max_tokens) == max_tokens
\* int(max_tokens * SUPPORTING_BUDGET_RATIO)
SupportingBudget(max_tokens) == (max_tokens * 3) \div 10

\* ContextAssemblyService.assemble_context (deduplicate=True)
assemble_context(results, max_tokens) ==
    IF results = <<>> THEN EmptyContext
    ELSE LET cat == categorize_results(deduplicate_results(results))
             primary == fill_context_window(cat.primary, PrimaryBudget(max_tokens))
             supporting == fill_context_window(cat.supporting, SupportingBudget(max_tokens))
             all == primary \o supporting
         IN  [primary_chunks |-> primary, supporting_chunks |-> supporting,
              \* _calculate_total_tokens: the chunks plus 200 for the structure
              total_tokens |-> SumTokens(all) + 200,
              source_count |-> Cardinality({all[i].resource_id : i \in 1..Len(all)})]


\* ------------------------------------------------ orchestrator, one request
\* GenerateMessageRequest.max_context_tokens: ge=500, le=16000, default 4000
MaxContextTokens == {500, 4000}
\* lengths in characters of the chunks the retriever hands over
GenChunkChars == {160, 600}
\* final scores the reranker gives, in hundredths
GenScores == {30, 80}

\* the result lists of at most n chunks: chunk i of resource i
GenResultLists(n) ==
    UNION {[1..k -> [chunk_id : {0}, resource_id : {0}, sig : {0}, score : {1},
                     chars : GenChunkChars, final_score : GenScores]] : k \in 0..n}

\* chunk ids, resources and content signatures by position
Numbered(rs) == [i \in 1..Len(rs) |-> [rs[i] EXCEPT !.chunk_id = i, !.resource_id = i,
                                                     !.sig = i]]

\* the Message row written by _save_message: status is not given, so the
\* column default applies (models.Message.status, default="pending")
SavedRow(role, content) == [role |-> role, content |-> content, status |-> "pending"]

NoReply == [content |-> NULL, sources |-> {}, citations |-> "{}", warnings |-> <<>>,
            tokens_used |-> 0]

InitGen ==
    /\ InitFabric
    /\ hs = Off /\ ca = Off /\ cv = Off /\ rg = Off /\ OtherServicesOff
    /\ \E caller \in {"worker", "endpoint"}, loop \in EventLoops, q \in Queries,
          hits \in GenResultLists(MaxGenResults), mt \in MaxContextTokens,
          save \in BOOLEAN, conv \in BOOLEAN :
        \* the worker runs the pipeline on a loop of its own, with a
        \* conversation and save_message=False (tasks/message_generation.py 84-100)
        /\ caller = "worker" => loop = "asyncio" /\ conv /\ ~save
        \* generate_message: save_message and conversation_id is not None
        /\ caller = "endpoint" => (save => conv)
        /\ gen = [pc |-> "start", caller |-> caller, loop |-> loop, query |-> q,
                  hits |-> Numbered(hits), max_context_tokens |-> mt,
                  save_message |-> save, has_conversation |-> conv,
                  search_results |-> <<>>, context |-> EmptyContext,
                  llm_contacts |-> {}, reply |-> NoReply, saved |-> <<>>,
                  message_count |-> 0, row_status |-> "streaming"]

\* lines 135-143: hybrid_search, which expands the query first (search.py 329-331)
G_Search ==
    /\ gen.pc = "start"
    /\ LET e == expand_query(gen.query, 4, gen.loop, TRUE, 0)
       IN  gen' = [gen EXCEPT !.pc = "searched", !.search_results = gen.hits,
                              !.llm_contacts = IF e.contacted THEN {"expansion"} ELSE {}]
    /\ UNCHANGED <<fabricVars, hs, ca, cv, rg, otherServices>>

\* the canned reply produced after asking the LLM all the same
G_NoResults_AsksLLM ==
    /\ gen.pc = "searched"
    /\ gen.search_results = <<>>
    /\ gen' = [gen EXCEPT !.pc = "returned",
                          !.llm_contacts = @ \cup {"generation"},
                          !.reply = [NoReply EXCEPT !.content = "no_context",
                              !.warnings = <<"No relevant documents found for this query">>]]
    /\ UNCHANGED <<fabricVars, hs, ca, cv, rg, otherServices>>

\* lines 145-152: no results, the canned reply
G_NoResults ==
    /\ gen.pc = "searched"
    /\ gen.search_results = <<>>
    /\ gen' = [gen EXCEPT !.pc = "returned",
                          !.reply = [NoReply EXCEPT !.content = "no_context",
                              !.warnings = <<"No relevant documents found for this query">>]]
    /\ UNCHANGED <<fabricVars, hs, ca, cv, rg, otherServices>>

\* lines 154-177: rerank (its conflict checks go through call_llm for two
\* results of different resources), assemble the context
G_Assemble ==
    /\ gen.pc = "searched"
    /\ gen.search_results # <<>>
    /\ LET rs == gen.search_results
           reranked == SortedByScore(rs)
           checked == \E i, j \in 1..Len(rs) : rs[i].resource_id # rs[j].resource_id
           c == call_llm(gen.loop, TRUE)
       IN  gen' = [gen EXCEPT !.pc = "assembled",
                      !.context = assemble_context(reranked, gen.max_context_tokens),
                      !.llm_contacts = IF checked /\ c.contacted
                                       THEN @ \cup {"conflict"} ELSE @]
    /\ UNCHANGED <<fabricVars, hs, ca, cv, rg, otherServices>>

\* lines 184-220: build the prompt and call the LLM, whatever the context holds
G_CallLLM ==
    /\ gen.pc = "assembled"
    /\ \E llmOk \in BOOLEAN :
        LET limited == IF gen.context.source_count < 3
                       THEN <<"Limited sources available - answer may be incomplete">>
                       ELSE <<>>
        IN  IF llmOk
            THEN gen' = [gen EXCEPT !.pc = "answered",
                            !.llm_contacts = @ \cup {"generation"},
                            !.reply = [NoReply EXCEPT !.content = "answer",
                                                      !.warnings = limited,
                                                      !.tokens_used = (8 \div 4) + (4 \div 4)]]
            ELSE gen' = [gen EXCEPT !.pc = "returned",
                            !.llm_contacts = @ \cup {"generation"},
                            !.reply = [NoReply EXCEPT
                                !.content = "I encountered an error generating a response",
                                !.warnings = <<"LLM call failed">>]]
    /\ UNCHANGED <<fabricVars, hs, ca, cv, rg, otherServices>>

\* lines 224-273: verify, collect the source ids, build the GeneratedMessage
G_Build ==
    /\ gen.pc = "answered"
    /\ LET all == gen.context.primary_chunks \o gen.context.supporting_chunks
       IN  gen' = [gen EXCEPT !.pc = "built",
                      !.reply = [@ EXCEPT !.sources = {all[i].resource_id : i \in 1..Len(all)},
                                          !.citations = "verification"]]
    /\ UNCHANGED <<fabricVars, hs, ca, cv, rg, otherServices>>

\* lines 275-283: _save_message when asked to save into a conversation
G_Save ==
    /\ gen.pc = "built"
    /\ IF gen.save_message /\ gen.has_conversation
       THEN gen' = [gen EXCEPT !.pc = "returned",
                       !.saved = <<SavedRow("user", "query"),
                                   SavedRow("assistant", gen.reply.content)>>,
                       !.message_count = @ + 2]
       ELSE gen' = [gen EXCEPT !.pc = "returned"]
    /\ UNCHANGED <<fabricVars, hs, ca, cv, rg, otherServices>>

\* tasks/message_generation.py 110-128: the worker writes the result into
\* the message row with status complete
G_WorkerCommit ==
    /\ gen.pc = "returned"
    /\ gen.caller = "worker"
    /\ gen' = [gen EXCEPT !.pc = "committed", !.row_status = "complete"]
    /\ UNCHANGED <<fabricVars, hs, ca, cv, rg, otherServices>>

NextGen == G_Search \/ G_NoResults \/ G_Assemble \/ G_CallLLM \/ G_Build \/ G_Save
           \/ G_WorkerCommit
SpecGen == InitGen /\ [][NextGen]_vars


\* the request is over: generate_response has returned to its caller
GenReturned == gen.pc \in {"returned", "committed"}

\* the reply of lines 147-152
IsNoContextReply(r) ==
    /\ r.content = "no_context"
    /\ r.sources = {}
    /\ r.warnings = <<"No relevant documents found for this query">>

C12_EmptyPacketNoLlm ==
    (GenReturned /\ gen.context.primary_chunks = <<>>
                 /\ gen.context.supporting_chunks = <<>>) =>
        /\ "generation" \notin gen.llm_contacts
        /\ gen.reply.content = "no_context"

\* C20: a request that saves into a conversation writes the user message
\* with status complete and the assistant message with the status of the
\* outcome; no message it writes is left pending.
C20_SavedNotPending ==
    (GenReturned /\ gen.saved # <<>>) =>
        /\ gen.saved[1].status = "complete"
        /\ \A i \in 1..Len(gen.saved) : gen.saved[i].status # "pending"


\* ======================================================================
\* Hybrid retriever (services/search.py hybrid_search, _combine_results_rrf)
\* ======================================================================

\* ------------------------------------------------------------- bounds
\* query variants handed to the fan-out (combine_variants returns 1..4)
MaxVariants == 2
\* largest top_k requested
MaxTopK == 2

\* RRF constant: k = 60
rrf_k == 60

\* the chunks of the workspace
ChunkIds == {"c1", "c2"}

\* what one branch returns for one variant: found of a query, so no chunk
\* twice; at most n of them; nothing when the branch failed or matched nothing
BranchResults(n) ==
    {s \in UNION {[1..k -> ChunkIds] : k \in 0..n} :
        \A i, j \in 1..Len(s) : i # j => s[i] # s[j]}

\* lines 367-386: the first occurrence of every chunk id is kept
RECURSIVE DedupById(_, _)
DedupById(found, seen_ids) ==
    IF found = <<>> THEN <<>>
    ELSE IF found[1] \in seen_ids
         THEN DedupById(Tail(found), seen_ids)
         ELSE <<found[1]>> \o DedupById(Tail(found), seen_ids \cup {found[1]})

\* the ids of found that are not in seen, in order
Fresh(found, seen) == SelectSeq(DedupById(found, {}), LAMBDA c : c \notin seen)

Range(f) == {f[i] : i \in DOMAIN f}

\* common denominator of the scores: every 1 / (k + rank) is an integer
\* multiple of 1 / RrfUnit(n) for ranks up to n; the lists hybrid_search
\* hands over are deduplicated, so no rank exceeds the number of chunks
RECURSIVE RrfUnit(_)
RrfUnit(n) == IF n = 0 THEN 1 ELSE (rrf_k + n) * RrfUnit(n - 1)

\* (1 / (k + rank)) * weight of the last row holding the chunk (a later row
\* of the same chunk overwrites the component), 0 when the branch lacks it;
\* weight in tenths, the score in units of 1 / (10 * RrfUnit)
Component(found, c, weight) ==
    LET at == {i \in 1..Len(found) : found[i] = c}
        rank == CHOOSE i \in at : \A j \in at : j <= i
    IN  IF at = {} THEN 0
        ELSE weight * (RrfUnit(Cardinality(ChunkIds)) \div (rrf_k + rank))

\* sorted(combined_scores.values(), key=final, reverse=True): stable
RECURSIVE SortedByFinal(_)
SortedByFinal(es) ==
    IF es = <<>> THEN <<>>
    ELSE LET n == Len(es)
             rest == SortedByFinal(SubSeq(es, 1, n - 1))
             x == es[n]
             k == Cardinality({i \in 1..Len(rest) : rest[i].final >= x.final})
         IN  SubSeq(rest, 1, k) \o <<x>> \o SubSeq(rest, k + 1, Len(rest))

\* the whole sorted list returned
TopK_All(es, top_k) == es
\* [:top_k]
TopK(es, top_k) == SubSeq(es, 1, IF Len(es) < top_k THEN Len(es) ELSE top_k)

\* _combine_results_rrf: one entry per chunk id, in the order the ids
\* entered the dict (semantic, then keyword, then graph)
combine_results_rrf(semantic_results, keyword_results, graph_chunks, top_k) ==
    LET sem == Fresh(semantic_results, {})
        key == Fresh(keyword_results, Range(sem))
        gra == Fresh(graph_chunks, Range(sem) \cup Range(key))
        ids == sem \o key \o gra
        Entry(c) ==
            LET se == Component(semantic_results, c, 5)
                ke == Component(keyword_results, c, 3)
                gr == Component(graph_chunks, c, 2)
            IN  [chunk_id |-> c, semantic |-> se, keyword |-> ke, graph |-> gr,
                 final |-> se + ke + gr]
    IN  TopK(SortedByFinal([i \in 1..Len(ids) |-> Entry(ids[i])]), top_k)

InitSearch ==
    /\ InitFabric
    /\ gen = Off /\ ca = Off /\ cv = Off /\ rg = Off /\ OtherServicesOff
    /\ \E nv \in 1..MaxVariants, top_k \in 1..MaxTopK :
        hs = [pc |-> "fanout", queries |-> nv, top_k |-> top_k, done |-> 0,
              all_semantic |-> <<>>, all_keyword |-> <<>>, all_graph_chunks |-> <<>>,
              results |-> <<>>]

\* lines 341-364: one variant, its three searches appended to the lists
HS_Variant ==
    /\ hs.pc = "fanout"
    /\ hs.done < hs.queries
    /\ \E semantic \in BranchResults(hs.top_k), keyword \in BranchResults(hs.top_k),
          graph \in BranchResults(Cardinality(ChunkIds)) :
        hs' = [hs EXCEPT !.done = @ + 1,
                         !.all_semantic = @ \o semantic,
                         !.all_keyword = @ \o keyword,
                         !.all_graph_chunks = @ \o graph]
    /\ UNCHANGED <<fabricVars, gen, ca, cv, rg, otherServices>>

\* lines 366-397: deduplicate every list by chunk id, fuse, return
HS_Fuse ==
    /\ hs.pc = "fanout"
    /\ hs.done = hs.queries
    /\ hs' = [hs EXCEPT !.pc = "returned",
                        !.results = combine_results_rrf(DedupById(hs.all_semantic, {}),
                                                        DedupById(hs.all_keyword, {}),
                                                        DedupById(hs.all_graph_chunks, {}),
                                                        hs.top_k)]
    /\ UNCHANGED <<fabricVars, gen, ca, cv, rg, otherServices>>

NextSearch == HS_Variant \/ HS_Fuse
SpecSearch == InitSearch /\ [][NextSearch]_vars

\* the number of found of a list that hold chunk c
Occurrences(found, c) == Cardinality({i \in 1..Len(found) : found[i] = c})

\* C13: the list the hybrid retriever returns has pairwise distinct chunk
\* ids, at most top_k elements, and is ordered by fused score descending
\* (so a chunk found by several branches or variants is there at most once).
C13_DistinctBoundedSorted ==
    hs.pc = "returned" =>
        /\ \A i, j \in 1..Len(hs.results) :
              i # j => hs.results[i].chunk_id # hs.results[j].chunk_id
        /\ Len(hs.results) <= hs.top_k
        /\ \A i \in 1..Len(hs.results) - 1 : hs.results[i].final >= hs.results[i + 1].final
        /\ \A i \in 1..Len(hs.results) :
              hs.results[i].chunk_id \in
                  Range(hs.all_semantic) \cup Range(hs.all_keyword) \cup Range(hs.all_graph_chunks)

\* C13 witness: two variants both found a chunk semantically, the keyword
\* branch found it too, more chunks were found than top_k, and the chunk was
\* returned
C13_Witness ==
    /\ hs.pc = "returned"
    /\ \E c \in ChunkIds :
        /\ Occurrences(hs.all_semantic, c) >= 2
        /\ Occurrences(hs.all_keyword, c) >= 1
        /\ \E i \in 1..Len(hs.results) : hs.results[i].chunk_id = c
    /\ Cardinality(Range(hs.all_semantic) \cup Range(hs.all_keyword)
                   \cup Range(hs.all_graph_chunks)) > hs.top_k
    /\ Len(hs.results) = hs.top_k


\* ======================================================================
\* Context assembler on its own (ContextAssemblyService.assemble_context)
\* ======================================================================

\* ------------------------------------------------------------- bounds
\* reranked results handed to the assembler
MaxResults == 3

\* max_tokens: ge=500, le=16000 in both request schemas
AssemblyMaxTokens == {500, 1000, 4000, 16000}
\* content lengths in characters: 40, 101, 300 and 3000 estimated tokens
ChunkChars == {160, 404, 1200, 12000}
\* final scores of the reranker, in hundredths: below and above 0.7
FinalScores == {30, 80}
\* content signatures (the first 200 characters): two results of one
\* signature are near-duplicates
Signatures == {"sigA", "sigB"}

\* result lists of at most n chunks; chunk i has id i, of resource 1 or 2
ResultLists(n) ==
    UNION {[1..k -> [chunk_id : {0}, resource_id : {0}, score : {1}, sig : Signatures,
                     chars : ChunkChars, final_score : FinalScores]] : k \in 0..n}

WithIds(rs) == [i \in 1..Len(rs) |-> [rs[i] EXCEPT !.chunk_id = i,
                                                    !.resource_id = (i % 2) + 1]]

InitAssembly ==
    /\ InitFabric
    /\ gen = Off /\ hs = Off /\ cv = Off /\ rg = Off /\ OtherServicesOff
    /\ \E rs \in ResultLists(MaxResults), mt \in AssemblyMaxTokens :
        ca = [pc |-> "called", results |-> WithIds(rs), max_tokens |-> mt,
              context |-> EmptyContext]

\* assemble_context(results, query, workspace_id, max_tokens)
CA_Assemble ==
    /\ ca.pc = "called"
    /\ ca' = [ca EXCEPT !.pc = "returned",
                        !.context = assemble_context(ca.results, ca.max_tokens)]
    /\ UNCHANGED <<fabricVars, gen, hs, cv, rg, otherServices>>

NextAssembly == CA_Assemble
SpecAssembly == InitAssembly /\ [][NextAssembly]_vars

\* the chunks of a packet, primary then supporting
PacketChunks(context) == context.primary_chunks \o context.supporting_chunks

\* C14: the token counts of all primary and supporting chunks of a packet,
\* truncated chunks included, sum to at most max_tokens - 200.
C14_WithinBudget ==
    ca.pc = "returned" =>
        SumTokens(PacketChunks(ca.context)) <= ca.max_tokens - metadata_tokens

\* C14 witness: a packet with primary and supporting chunks, one of them
\* truncated to what was left of its window
C14_Witness ==
    /\ ca.pc = "returned"
    /\ ca.context.primary_chunks # <<>>
    /\ ca.context.supporting_chunks # <<>>
    /\ \E i \in 1..Len(PacketChunks(ca.context)) : PacketChunks(ca.context)[i].truncated


\* ======================================================================
\* Prompt builder and citation verifier over one packet
\* (services/prompt_engineering.py _format_context_for_prompt,
\*  services/citation_verification.py verify_response)
\* ======================================================================

\* ------------------------------------------------------------- bounds
\* length of the LLM's response, in lexical units
MaxResponseLen == 4

\* packets by their chunk ids, primary and supporting: a packet without a
\* primary chunk has no supporting chunk either (the assembler's budgets)
Packets == {[primary_chunks |-> <<>>, supporting_chunks |-> <<>>],
            [primary_chunks |-> <<"p1">>, supporting_chunks |-> <<>>],
            [primary_chunks |-> <<"p1">>, supporting_chunks |-> <<"s1">>],
            [primary_chunks |-> <<"p1", "p2">>, supporting_chunks |-> <<"s1">>]}

\* the response text as a sequence of lexical units: a word; a factual
\* indicator ("research shows", "42%"); sentence punctuation (. ! ?); a
\* double quote; white space; a citation [Source a]; a double citation
\* [Source a, Source b]. Sources 1 and 2 exist in the larger packets, 99 in none
Unit(k, a, b) == [k |-> k, a |-> a, b |-> b]
Alphabet == {Unit("word", 0, 0), Unit("indicator", 0, 0), Unit("punct", 0, 0),
             Unit("quote", 0, 0), Unit("space", 0, 0),
             Unit("cite", 1, 0), Unit("cite", 2, 0), Unit("cite", 99, 0),
             Unit("cite2", 1, 2), Unit("cite2", 99, 99)}
Responses(n) == UNION {[1..k -> Alphabet] : k \in 0..n}

\* _calculate_overlap of a claim that has words against the content of its
\* source, in hundredths: none, partial (paraphrase) or high
Overlaps == {0, 50, 100}
\* MIN_OVERLAP_SCORE = 0.3, HIGH_CONFIDENCE_THRESHOLD = 0.7
MIN_OVERLAP_SCORE == 30
HIGH_CONFIDENCE_THRESHOLD == 70

\* ------------------------------------------------------- prompt builder
\* _format_context_for_prompt: one block "[Source N] ... [End Source N]" per
\* chunk, source_index counting from first
RECURSIVE Blocks(_, _)
Blocks(chunks, source_index) ==
    IF chunks = <<>> THEN <<>>
    ELSE <<[source_index |-> source_index, chunk_id |-> chunks[1]]>>
         \o Blocks(Tail(chunks), source_index + 1)

format_context_for_prompt(context) ==
    Blocks(context.primary_chunks, 1)
    \o Blocks(context.supporting_chunks, 1 + Len(context.primary_chunks))

\* ---------------------------------------------------------- source map
\* the dict left by "source_map[source_index] = chunk" over the entries in
\* order: a later entry of the same number replaces the earlier one
MapOf(entries) ==
    [n \in {entries[i].source_index : i \in 1..Len(entries)} |->
        LET at == {i \in 1..Len(entries) : entries[i].source_index = n}
        IN  entries[CHOOSE i \in at : \A j \in at : j <= i].chunk_id]

\* the supporting chunks numbered from 1 again
build_source_map_Restart(context) ==
    MapOf(Blocks(context.primary_chunks, 1) \o Blocks(context.supporting_chunks, 1))

\* _build_source_map: source number -> chunk, source_index running from 1
\* over the primary chunks and on over the supporting chunks
build_source_map(context) ==
    MapOf(Blocks(context.primary_chunks, 1)
          \o Blocks(context.supporting_chunks, 1 + Len(context.primary_chunks)))

\* ------------------------------------------------- citation extraction
NoMatch == [ok |-> FALSE, start |-> 0, end |-> 0, a |-> 0, b |-> 0, from |-> 0, to |-> 0]

\* the first index >= from of a unit of a kind in kinds, 0 if there is none
FirstAt(t, from, kinds) ==
    LET c == {j \in from..Len(t) : t[j].k \in kinds}
    IN  IF c = {} THEN 0 ELSE CHOOSE j \in c : \A x \in c : j <= x

\* \s* : the first index >= from that is not white space (Len + 1 at the end)
SkipSpaces(t, from) ==
    LET c == {j \in from..Len(t) : t[j].k # "space"}
    IN  IF c = {} THEN Len(t) + 1 ELSE CHOOSE j \in c : \A x \in c : j <= x

\* QUOTE_PATTERN  "([^"]+)"\s*\[Source\s*(\d+)\]  matched at index i
QuoteMatchAt(t, i) ==
    IF t[i].k # "quote" THEN NoMatch
    ELSE LET j == FirstAt(t, i + 1, {"quote"})
             k == SkipSpaces(t, j + 1)
         IN  IF j = 0 \/ j = i + 1 THEN NoMatch
             ELSE IF k <= Len(t) /\ t[k].k = "cite"
                  THEN [ok |-> TRUE, start |-> i, end |-> k, a |-> t[k].a, b |-> 0,
                        from |-> i + 1, to |-> j - 1]
                  ELSE NoMatch

\* CLAIM_PATTERN  ([^.!?]+[.!?])\s*\[Source\s*(\d+)(?:,\s*Source\s*(\d+))?\]
\* matched at index i: a run without sentence punctuation, the punctuation,
\* white space, the citation
ClaimMatchAt(t, i) ==
    IF t[i].k = "punct" THEN NoMatch
    ELSE LET j == FirstAt(t, i + 1, {"punct"})
             k == SkipSpaces(t, j + 1)
         IN  IF j = 0 THEN NoMatch
             ELSE IF k <= Len(t) /\ t[k].k \in {"cite", "cite2"}
                  THEN [ok |-> TRUE, start |-> i, end |-> k, a |-> t[k].a, b |-> t[k].b,
                        from |-> i, to |-> j]
                  ELSE NoMatch

\* pattern.finditer: leftmost matches, each search resuming after the last
RECURSIVE QuoteMatches(_, _)
QuoteMatches(t, pos) ==
    IF pos > Len(t) THEN <<>>
    ELSE LET m == QuoteMatchAt(t, pos)
         IN  IF m.ok THEN <<m>> \o QuoteMatches(t, m.end + 1)
             ELSE QuoteMatches(t, pos + 1)

RECURSIVE ClaimMatches(_, _)
ClaimMatches(t, pos) ==
    IF pos > Len(t) THEN <<>>
    ELSE LET m == ClaimMatchAt(t, pos)
         IN  IF m.ok THEN <<m>> \o ClaimMatches(t, m.end + 1)
             ELSE ClaimMatches(t, pos + 1)

\* whether the claim text t[from..to] holds a word for _tokenize
HasWords(t, from, to) == \E i \in from..to : t[i].k \in {"word", "indicator"}

ExtractedCitation(t, m, id, is_quote) ==
    [citation_id |-> id, position |-> m.start, is_quote |-> is_quote,
     has_words |-> HasWords(t, m.from, m.to)]

\* lines 245-273: the claim matches in order, those at a position already
\* seen skipped, a second source of the same citation added
RECURSIVE ClaimCitations(_, _, _)
ClaimCitations(t, ms, seen_positions) ==
    IF ms = <<>> THEN <<>>
    ELSE LET m == ms[1]
         IN  IF m.start \in seen_positions
             THEN ClaimCitations(t, Tail(ms), seen_positions)
             ELSE <<ExtractedCitation(t, m, m.a, FALSE)>>
                  \o (IF m.b # 0 THEN <<ExtractedCitation(t, m, m.b, FALSE)>> ELSE <<>>)
                  \o ClaimCitations(t, Tail(ms), seen_positions \cup {m.start})

\* citations.sort(key=position): stable, ascending
RECURSIVE SortedByPosition(_)
SortedByPosition(cs) ==
    IF cs = <<>> THEN <<>>
    ELSE LET n == Len(cs)
             rest == SortedByPosition(SubSeq(cs, 1, n - 1))
             x == cs[n]
             k == Cardinality({i \in 1..Len(rest) : rest[i].position <= x.position})
         IN  SubSeq(rest, 1, k) \o <<x>> \o SubSeq(rest, k + 1, Len(rest))

\* _extract_citations
extract_citations(t) ==
    LET qm == QuoteMatches(t, 1)
        quoted == [i \in 1..Len(qm) |-> ExtractedCitation(t, qm[i], qm[i].a, TRUE)]
        claimed == ClaimCitations(t, ClaimMatches(t, 1),
                                  {qm[i].start : i \in 1..Len(qm)})
    IN  SortedByPosition(quoted \o claimed)

\* ------------------------------------------------------- verification
\* _verify_citation: a VerifiedCitation for every extracted one
verify_citation(c, source_map, overlap) ==
    IF c.citation_id \notin DOMAIN source_map
    THEN [citation_id |-> c.citation_id, chunk_id |-> NULL, verified |-> FALSE,
          verification_notes |-> "Referenced source was not provided in context"]
    ELSE LET overlap_score == IF c.has_words THEN overlap ELSE 0
             verified == overlap_score >= MIN_OVERLAP_SCORE
         IN  [citation_id |-> c.citation_id, chunk_id |-> source_map[c.citation_id],
              verified |-> verified,
              verification_notes |->
                  IF verified
                  THEN IF overlap_score >= HIGH_CONFIDENCE_THRESHOLD
                       THEN "High confidence match"
                       ELSE "Partial match - may be paraphrased"
                  ELSE "Could not verify claim against source content"]

\* re.split(r'(?<=[.!?])\s+', text): white space after sentence punctuation
\* separates two sentences
RECURSIVE IsBreak(_, _)
IsBreak(t, i) ==
    /\ i > 1
    /\ t[i].k = "space"
    /\ (t[i - 1].k = "punct" \/ IsBreak(t, i - 1))

\* the sentence of unit i, named by the last break before it
SentenceOf(t, i) ==
    LET b == {x \in 1..i : IsBreak(t, x)}
    IN  IF b = {} THEN 0 ELSE CHOOSE x \in b : \A y \in b : y <= x

\* _find_uncited_claims: the sentences with a factual indicator and without
\* a match of CITATION_PATTERN  \[Source\s*(\d+)\]
find_uncited_claims(t) ==
    {SentenceOf(t, i) : i \in {x \in 1..Len(t) : t[x].k = "indicator"}}
    \ {SentenceOf(t, i) : i \in {x \in 1..Len(t) : t[x].k = "cite"}}

\* the loop of _find_invalid_references; seen is its set of reported numbers
RECURSIVE InvalidFrom(_, _, _)
InvalidFrom(cs, source_map, seen) ==
    IF cs = <<>> THEN <<>>
    ELSE IF cs[1].citation_id \notin DOMAIN source_map /\ cs[1].citation_id \notin seen
         THEN <<cs[1].citation_id>>
              \o InvalidFrom(Tail(cs), source_map, seen \cup {cs[1].citation_id})
         ELSE InvalidFrom(Tail(cs), source_map, seen)

\* the invalid references, every occurrence reported
find_invalid_references_Repeating(citations, source_map) ==
    LET bad == SelectSeq(citations, LAMBDA c : c.citation_id \notin DOMAIN source_map)
    IN  [i \in 1..Len(bad) |-> bad[i].citation_id]

\* _find_invalid_references: the cited numbers missing from the source map,
\* each once, in order of first appearance
find_invalid_references(citations, source_map) ==
    InvalidFrom(citations, source_map, {})

\* an entry of hallucination_details
Detail(kind, ref) == [kind |-> kind, ref |-> ref]

\* verify_response(response_text, context, strict_mode); makes_claims
\* is _response_makes_claims (longer than 100 characters and not a short
\* "no information" answer)
verify_response(t, context, overlap, makes_claims, strict_mode) ==
    LET source_map == build_source_map(context)
        extracted == extract_citations(t)
        verified_citations == [i \in 1..Len(extracted) |->
                                  verify_citation(extracted[i], source_map, overlap)]
        \* step 4 runs in strict mode only
        uncited == IF strict_mode THEN find_uncited_claims(t) ELSE {}
        shown == IF Cardinality(uncited) < 5 THEN Cardinality(uncited) ELSE 5
        invalid_refs == find_invalid_references(extracted, source_map)
        low_conf == \E i \in 1..Len(verified_citations) :
                        /\ verified_citations[i].verified
                        /\ extracted[i].has_words
                        /\ overlap < HIGH_CONFIDENCE_THRESHOLD
    IN  [source_map |-> source_map,
         total_claims |-> Len(extracted),
         verified_citations |-> verified_citations,
         verified_count |-> Cardinality({i \in 1..Len(verified_citations) :
                                            verified_citations[i].verified}),
         unverified_claims |-> uncited,
         invalid_references |-> invalid_refs,
         has_hallucinations |-> \/ uncited # {}
                                \/ invalid_refs # <<>>
                                \/ (Len(extracted) = 0 /\ makes_claims),
         hallucination_details |->
            [i \in 1..shown |-> Detail("Uncited claim", 0)]
            \o [i \in 1..Len(invalid_refs) |->
                    Detail("Invalid source reference", invalid_refs[i])],
         warnings |->
            (IF invalid_refs # <<>>
             THEN <<"Response references sources that were not provided">> ELSE <<>>)
            \o (IF Len(extracted) = 0 /\ makes_claims
                THEN <<"Response makes claims but has no citations">> ELSE <<>>)
            \o (IF low_conf THEN <<"citations have low overlap scores">> ELSE <<>>)]

NoVerification == [source_map |-> <<>>, total_claims |-> 0, verified_citations |-> <<>>,
                   verified_count |-> 0, unverified_claims |-> {},
                   invalid_references |-> <<>>, has_hallucinations |-> FALSE,
                   hallucination_details |-> <<>>, warnings |-> <<>>]

InitVerify ==
    /\ InitFabric
    /\ gen = Off /\ hs = Off /\ ca = Off /\ rg = Off /\ OtherServicesOff
    /\ \E context \in Packets, t \in Responses(MaxResponseLen), overlap \in Overlaps,
          makes_claims \in BOOLEAN :
        cv = [pc |-> "assembled", context |-> context, response_text |-> t,
              overlap |-> overlap, makes_claims |-> makes_claims,
              \* generate_response passes strict_mode=True
              strict_mode |-> TRUE,
              prompt |-> <<>>, result |-> NoVerification]

\* build_prompt: the packet formatted into the user prompt
CV_BuildPrompt ==
    /\ cv.pc = "assembled"
    /\ cv' = [cv EXCEPT !.pc = "answered",
                        !.prompt = format_context_for_prompt(cv.context)]
    /\ UNCHANGED <<fabricVars, gen, hs, ca, rg, otherServices>>

\* verify_response on the LLM's answer
CV_Verify ==
    /\ cv.pc = "answered"
    /\ cv' = [cv EXCEPT !.pc = "verified",
                        !.result = verify_response(cv.response_text, cv.context,
                                                   cv.overlap, cv.makes_claims,
                                                   cv.strict_mode)]
    /\ UNCHANGED <<fabricVars, gen, hs, ca, rg, otherServices>>

NextVerify == CV_BuildPrompt \/ CV_Verify
SpecVerify == InitVerify /\ [][NextVerify]_vars


\* the number of sources of the packet under verification
SourceCount == Len(cv.context.primary_chunks) + Len(cv.context.supporting_chunks)

\* the response holds the token [Source n]
Cites(n) == \E i \in 1..Len(cv.response_text) : cv.response_text[i] = Unit("cite", n, 0)

\* C15: the source indices of a packet are exactly 1..(|primary|+|supporting|),
\* given over primary then supporting, and the prompt builder emits every
\* chunk under the index under which the verifier's source map holds it.
C15_SameIndices ==
    cv.pc = "verified" =>
        LET chunks == PacketChunks(cv.context)
        IN  /\ DOMAIN cv.result.source_map = 1..SourceCount
            /\ Len(cv.prompt) = SourceCount
            /\ \A i \in 1..SourceCount :
                  /\ cv.prompt[i].source_index = i
                  /\ cv.prompt[i].chunk_id = chunks[i]
                  /\ cv.result.source_map[cv.prompt[i].source_index] = cv.prompt[i].chunk_id

\* C15 witness: a packet with primary and supporting chunks was verified and
\* a citation was resolved to the supporting chunk
C15_Witness ==
    /\ cv.pc = "verified"
    /\ cv.context.primary_chunks # <<>>
    /\ cv.context.supporting_chunks # <<>>
    /\ \E i \in 1..Len(cv.result.verified_citations) :
          cv.result.verified_citations[i].chunk_id = cv.context.supporting_chunks[1]

\* C16: every citation index of the verified-citation list is a key of the
\* source map or is reported as an invalid reference, and every invalid
\* index is reported once.
C16_CitedOrInvalid ==
    cv.pc = "verified" =>
        LET inv == cv.result.invalid_references
        IN  /\ \A i \in 1..Len(cv.result.verified_citations) :
                  \/ cv.result.verified_citations[i].citation_id
                         \in DOMAIN cv.result.source_map
                  \/ Occurrences(inv, cv.result.verified_citations[i].citation_id) = 1
            /\ \A i \in 1..Len(inv) :
                  /\ inv[i] \notin DOMAIN cv.result.source_map
                  /\ Occurrences(inv, inv[i]) = 1
            /\ (inv # <<>> => cv.result.has_hallucinations)

\* C16 witness: a source that the packet lacks was cited twice and is
\* reported, while the packet has sources
C16_Witness ==
    /\ cv.pc = "verified"
    /\ SourceCount >= 1
    /\ Len(cv.result.verified_citations) = 2
    /\ \A i \in 1..2 : cv.result.verified_citations[i].citation_id = 99
    /\ cv.result.invalid_references = <<99>>

\* C17: a response holding the token [Source 99], verified against a packet
\* of 3 sources, gives has_hallucinations = true and exactly one invalid
\* reference, wherever the token stands.
C17_Source99Flagged ==
    (cv.pc = "verified" /\ SourceCount = 3 /\ Cites(99)) =>
        /\ cv.result.has_hallucinations
        /\ Len(cv.result.invalid_references) = 1

\* C18: against a packet of N sources, an answer holding [Source i] for
\* every i in 1..N gives exactly N citations, each verified or noted, and no
\* invalid reference.
C18_RoundTrip ==
    (cv.pc = "verified" /\ SourceCount >= 1 /\ \A n \in 1..SourceCount : Cites(n)) =>
        /\ Len(cv.result.verified_citations) = SourceCount
        /\ \A i \in 1..Len(cv.result.verified_citations) :
              \/ cv.result.verified_citations[i].verified
              \/ cv.result.verified_citations[i].verification_notes # ""
        /\ cv.result.invalid_references = <<>>

\* ---------------------------------------------------------------------
\* Regeneration of an assistant message: POST /messages/{id}/regenerate
\* (api/conversations.py regenerate_message) over
\* MessageGenerationService.regenerate_response.
\* ---------------------------------------------------------------------

\* the number of message rows of the database, and the number of distinct
\* timestamps they carry
MaxMessages == 3
MaxTime == 3

ConversationIds == {"k1", "k2"}
Roles == {"user", "assistant"}
\* the id of the request names a row or no row at all (0)
MissingId == 0

\* a Message row as inserted: its content is what its author wrote (the row
\* id stands for it), the generated columns carry the first generation
MessageRow(id, conversation_id, role, timestamp) ==
    [conversation_id |-> conversation_id, role |-> role, timestamp |-> timestamp,
     content |-> <<"original", id>>, sources |-> <<"original">>,
     citations |-> <<"original">>, tokens_used |-> "original",
     generation_time |-> "original", model_used |-> "original",
     status |-> "complete"]

\* the three returns of generate_response: the canned no-context text, the
\* "I encountered an error" text of a failed LLM call, a generated answer
GenerateOutcomes == {"no_context", "llm_failed", "answer"}

\* generate_response(query=..., save_message=False): a GeneratedMessage
\* computed from the query; sources and citations stay at their defaults on
\* the two early returns
GeneratedMessage(query, outcome) ==
    [content |-> <<outcome, query>>,
     sources |-> IF outcome = "answer" THEN <<"regenerated">> ELSE <<>>,
     citations |-> IF outcome = "answer" THEN <<"regenerated">> ELSE <<>>,
     metrics |-> [tokens_used |-> IF outcome = "answer" THEN "regenerated" ELSE "zero",
                  total_time_ms |-> IF outcome = "answer" THEN "regenerated" ELSE "zero",
                  model_used |-> IF outcome = "answer" THEN "regenerated" ELSE "none"]]

\* the first query of regenerate_response: the row of that id with role
\* "assistant"
IsAssistantMessage(messages, message_id) ==
    /\ message_id \in DOMAIN messages
    /\ messages[message_id].role = "assistant"

\* the user messages of the same conversation before the message
EarlierUserMessages(messages, message_id) ==
    {u \in DOMAIN messages :
        /\ messages[u].conversation_id = messages[message_id].conversation_id
        /\ messages[u].role = "user"
        /\ messages[u].timestamp < messages[message_id].timestamp}

\* the earlier user messages ordered by ascending timestamp, first row
user_message_before_Oldest(messages, message_id) ==
    LET earlier == EarlierUserMessages(messages, message_id)
    IN  {u \in earlier : \A v \in earlier : messages[v].timestamp >= messages[u].timestamp}

\* the second query of regenerate_response: order_by(timestamp.desc()).first();
\* among rows of one timestamp the database returns any
user_message_before(messages, message_id) ==
    LET earlier == EarlierUserMessages(messages, message_id)
    IN  {u \in earlier : \A v \in earlier : messages[v].timestamp <= messages[u].timestamp}

\* the assignments of regenerate_response to the loaded row
Overwritten(row, new_response) ==
    [row EXCEPT !.content = new_response.content,
                !.sources = new_response.sources,
                !.citations = new_response.citations,
                !.tokens_used = new_response.metrics.tokens_used,
                !.generation_time = new_response.metrics.total_time_ms,
                !.model_used = new_response.metrics.model_used]

\* the database before a regenerate request: rows of both roles in two
\* conversations, each conversation counting its messages
InitRegen ==
    /\ InitFabric
    /\ gen = Off /\ hs = Off /\ ca = Off /\ cv = Off /\ OtherServicesOff
    /\ \E convs \in [1..MaxMessages -> ConversationIds],
          roles \in [1..MaxMessages -> Roles],
          times \in [1..MaxMessages -> 1..MaxTime],
          message_id \in {MissingId} \cup (1..MaxMessages) :
          rg = [pc |-> "request",
                message_id |-> message_id,
                messages |-> [i \in 1..MaxMessages |->
                                 MessageRow(i, convs[i], roles[i], times[i])],
                conversations |-> [k \in ConversationIds |->
                    [message_count |-> Cardinality({i \in 1..MaxMessages : convs[i] = k}),
                     token_usage |-> Cardinality({i \in 1..MaxMessages :
                                         convs[i] = k /\ roles[i] = "assistant"})]],
                query |-> <<>>,
                status_code |-> 0,
                response |-> <<>>]

\* regenerate_message answering 404: regenerate_response raised ValueError
\* at its first or its second query
RG_NotFound ==
    /\ rg.pc = "request"
    /\ \/ ~IsAssistantMessage(rg.messages, rg.message_id)
       \/ /\ IsAssistantMessage(rg.messages, rg.message_id)
          /\ user_message_before(rg.messages, rg.message_id) = {}
    /\ rg' = [rg EXCEPT !.pc = "returned", !.status_code = 404]
    /\ UNCHANGED <<fabricVars, gen, hs, ca, cv, otherServices>>

\* regenerate_message answering 200: the pipeline ran on the user message's
\* content without saving, the loaded row was overwritten and committed
RG_Regenerate ==
    /\ rg.pc = "request"
    /\ IsAssistantMessage(rg.messages, rg.message_id)
    /\ \E u \in user_message_before(rg.messages, rg.message_id),
          outcome \in GenerateOutcomes :
          LET new_response == GeneratedMessage(rg.messages[u].content, outcome)
          IN  rg' = [rg EXCEPT !.pc = "returned",
                               !.query = rg.messages[u].content,
                               !.messages[rg.message_id] =
                                    Overwritten(rg.messages[rg.message_id], new_response),
                               !.status_code = 200,
                               !.response = new_response.content]
    /\ UNCHANGED <<fabricVars, gen, hs, ca, cv, otherServices>>

\* regenerate_message answering 500: the pipeline raised (retrieval or
\* assembly failed) before the row was touched
RG_PipelineRaised ==
    /\ rg.pc = "request"
    /\ IsAssistantMessage(rg.messages, rg.message_id)
    /\ \E u \in user_message_before(rg.messages, rg.message_id) :
          rg' = [rg EXCEPT !.pc = "returned",
                           !.query = rg.messages[u].content,
                           !.status_code = 500]
    /\ UNCHANGED <<fabricVars, gen, hs, ca, cv, otherServices>>

NextRegen == RG_NotFound \/ RG_Regenerate \/ RG_PipelineRaised
SpecRegen == InitRegen /\ [][NextRegen]_vars

\* the user messages of the conversation with the greatest timestamp
\* strictly before the message
LatestEarlierUser(messages, message_id) ==
    {u \in DOMAIN messages :
        /\ messages[u].role = "user"
        /\ messages[u].conversation_id = messages[message_id].conversation_id
        /\ messages[u].timestamp < messages[message_id].timestamp
        /\ ~\E v \in DOMAIN messages :
               /\ messages[v].role = "user"
               /\ messages[v].conversation_id = messages[message_id].conversation_id
               /\ messages[v].timestamp < messages[message_id].timestamp
               /\ messages[v].timestamp > messages[u].timestamp}

\* C19: a regenerate request reruns the pipeline on the content of the user
\* message of the same conversation with the greatest timestamp strictly
\* before the assistant message and overwrites content, sources, citations
\* and metrics of that one row; it creates no message, leaves message_count,
\* token_usage and every other message as they were, and answers not-found,
\* changing nothing, when the id is no assistant message or no earlier user
\* message exists.
C19_RegenerateInPlace ==
    [][(rg.pc = "request" /\ rg'.pc = "returned") =>
          LET id == rg.message_id
              found == /\ IsAssistantMessage(rg.messages, id)
                       /\ LatestEarlierUser(rg.messages, id) # {}
          IN  /\ DOMAIN rg'.messages = DOMAIN rg.messages
              /\ rg'.conversations = rg.conversations
              /\ \A i \in DOMAIN rg.messages : i # id => rg'.messages[i] = rg.messages[i]
              /\ ~found => /\ rg'.status_code = 404
                           /\ rg'.messages = rg.messages
              /\ rg'.status_code = 200 =>
                    /\ found
                    /\ \E u \in LatestEarlierUser(rg.messages, id) :
                          /\ rg'.query = rg.messages[u].content
                          /\ \E outcome \in GenerateOutcomes :
                                rg'.messages[id] =
                                    Overwritten(rg.messages[id],
                                                GeneratedMessage(rg.messages[u].content, outcome))
                    /\ rg'.messages[id].content = rg'.response
                    /\ rg'.messages[id].status = rg.messages[id].status
                    /\ rg'.messages[id].timestamp = rg.messages[id].timestamp
              /\ rg'.status_code # 200 => rg'.messages = rg.messages]_vars

\* C19 witness: an assistant message with two earlier user messages of
\* different times in its conversation was regenerated from the later one
C19_Witness ==
    /\ rg.pc = "returned"
    /\ rg.status_code = 200
    /\ \E u, v \in DOMAIN rg.messages :
          /\ rg.messages[u].role = "user" /\ rg.messages[v].role = "user"
          /\ rg.messages[u].conversation_id = rg.messages[rg.message_id].conversation_id
          /\ rg.messages[v].conversation_id = rg.messages[rg.message_id].conversation_id
          /\ rg.messages[u].timestamp < rg.messages[v].timestamp
          /\ rg.messages[v].timestamp < rg.messages[rg.message_id].timestamp
          /\ rg.query = <<"original", v>>
          /\ rg.messages[rg.message_id].content = <<"answer", <<"original", v>>>>

\* ---------------------------------------------------------------------
\* The reranker: ReRankingService.rerank with conflict detection.
\* Scores are in percent, weighted sums in 1/10^4, final scores in 1/10^6.
\* ---------------------------------------------------------------------

\* the longest result list given to rerank
MaxRerank == 3

base_weight == 40
factor_weight == 15
neutral_factor == 50
top_conflict_results == 5
conflict_penalty == 5

ResourceIds == {"ra", "rb"}
\* what a chunk states about the query; two chunks contradict each other
\* when their stances differ, and the LLM asked about them answers YES
Stances == {"up", "down"}
BaseScores == {50, 100}

\* the result lists of a retrieval: chunk ids are distinct (the position
\* stands for the id)
RerankInputs(n) ==
    UNION {[1..k -> [resource_id : ResourceIds, stance : Stances, score : BaseScores]]
           : k \in 0..n}

SearchResults(rs) ==
    [i \in 1..Len(rs) |->
        [chunk_id |-> i, resource_id |-> rs[i].resource_id, stance |-> rs[i].stance,
         score |-> rs[i].score, weighted_sum |-> 0, final_score |-> 0,
         conflicts |-> <<>>, conflict_count |-> 0]]

\* the five factors of lines 57-82; the four scorers that read the database
\* are held at their neutral value
WeightedSum(result) ==
    result.score * base_weight + 4 * (neutral_factor * factor_weight)

\* _check_conflict: call_llm asked for YES or NO; an exception is "no conflict"
check_conflict(result1, result2, loop, running) ==
    LET r == call_llm(loop, running)
    IN  IF r.raised THEN FALSE ELSE result1.stance # result2.stance

\* the inner loop of _detect_conflicts: result1 = top[i] against top[j..]
RECURSIVE DetectInner(_, _, _, _, _, _)
DetectInner(top, i, j, conflicts, loop, running) ==
    IF j > Len(top) THEN conflicts
    ELSE IF top[i].resource_id = top[j].resource_id
         THEN DetectInner(top, i, j + 1, conflicts, loop, running)
         ELSE IF check_conflict(top[i], top[j], loop, running)
              THEN LET id1 == top[i].chunk_id
                       id2 == top[j].chunk_id
                       c1 == [conflicts EXCEPT ![id1] = Append(@, id2)]
                       c2 == IF id2 \in DOMAIN c1 THEN c1 ELSE (id2 :> <<>>) @@ c1
                       c3 == [c2 EXCEPT ![id2] = Append(@, id1)]
                   IN  DetectInner(top, i, j + 1, c3, loop, running)
              ELSE DetectInner(top, i, j + 1, conflicts, loop, running)

\* the outer loop of _detect_conflicts: line 323 assigns an empty list to
\* result1's key at the start of its turn, whatever the key held
RECURSIVE DetectOuter(_, _, _, _, _)
DetectOuter(top, i, conflicts, loop, running) ==
    IF i > Len(top) THEN conflicts
    ELSE DetectOuter(top, i + 1,
                     DetectInner(top, i, i + 1, (top[i].chunk_id :> <<>>) @@ conflicts,
                                 loop, running),
                     loop, running)

\* _detect_conflicts(results, query): chunk_id -> list of conflicting chunk ids
detect_conflicts(results, loop, running) ==
    LET n == IF Len(results) < top_conflict_results THEN Len(results)
             ELSE top_conflict_results
    IN  DetectOuter(SubSeq(results, 1, n), 1, <<>>, loop, running)

\* sorted(results, key=final_score, reverse=True): stable, descending
RECURSIVE SortedReranked(_)
SortedReranked(rs) ==
    IF rs = <<>> THEN <<>>
    ELSE LET n == Len(rs)
             rest == SortedReranked(SubSeq(rs, 1, n - 1))
             x == rs[n]
             k == Cardinality({i \in 1..Len(rest) : rest[i].final_score >= x.final_score})
         IN  SubSeq(rest, 1, k) \o <<x>> \o SubSeq(rest, k + 1, Len(rest))

\* rerank(results, query, workspace_id, detect_conflicts=True)
rerank(results, loop, running) ==
    IF results = <<>> THEN <<>>
    ELSE LET conflicts_map == detect_conflicts(results, loop, running)
             Scored(result) ==
                 LET sum == WeightedSum(result)
                 IN  IF result.chunk_id \in DOMAIN conflicts_map
                     THEN LET found == conflicts_map[result.chunk_id]
                          IN  [result EXCEPT
                                  !.weighted_sum = sum,
                                  !.conflicts = found,
                                  !.conflict_count = Len(found),
                                  !.final_score = sum * (100 - Len(found) * conflict_penalty)]
                     ELSE [result EXCEPT !.weighted_sum = sum, !.final_score = sum * 100]
         IN  SortedReranked([i \in 1..Len(results) |-> Scored(results[i])])

\* one call of rerank: from the pipeline (generate_response, on the running
\* event loop) or from synchronous code, for which call_llm is written
InitRerank ==
    /\ InitFabric
    /\ gen = Off /\ hs = Off /\ ca = Off /\ cv = Off /\ rg = Off
    /\ qe = Off /\ cx = Off
    /\ \E rs \in RerankInputs(MaxRerank), loop \in EventLoops, running \in BOOLEAN :
        rr = [pc |-> "called", results |-> SearchResults(rs), loop |-> loop,
              running |-> running, reranked |-> <<>>]

RR_Rerank ==
    /\ rr.pc = "called"
    /\ rr' = [rr EXCEPT !.pc = "reranked",
                        !.reranked = rerank(rr.results, rr.loop, rr.running)]
    /\ UNCHANGED <<fabricVars, gen, hs, ca, cv, rg, qe, cx>>

NextRerank == RR_Rerank
SpecRerank == InitRerank /\ [][NextRerank]_vars

\* the positions, in the list given to rerank, of the result pairs that the
\* conflict check is asked about and that contradict each other
ConflictingPairs ==
    {p \in (1..Len(rr.results)) \X (1..Len(rr.results)) :
        /\ p[1] # p[2]
        /\ p[1] <= top_conflict_results /\ p[2] <= top_conflict_results
        /\ rr.results[p[1]].resource_id # rr.results[p[2]].resource_id
        /\ rr.results[p[1]].stance # rr.results[p[2]].stance}

\* the reranked result of a chunk id
Reranked(id) == CHOOSE r \in Range(rr.reranked) : r.chunk_id = id

\* C21: after reranking with conflict detection a result A lists B exactly
\* when B lists A and they are a conflicting pair of distinct resources among
\* the top 5; conflict_count is the number of pointers; final_score is the
\* weighted factor sum times (1 - 0.05 * conflict_count), so a result with a
\* conflict is reduced by at least 5%.
C21_SymmetricPenalised ==
    rr.pc = "reranked" =>
        /\ \A a, b \in 1..Len(rr.results) :
              (b \in Range(Reranked(a).conflicts)) <=> (<<a, b>> \in ConflictingPairs)
        /\ \A a \in 1..Len(rr.results) :
              /\ Reranked(a).conflict_count = Len(Reranked(a).conflicts)
              /\ Reranked(a).final_score
                     = Reranked(a).weighted_sum
                           * (100 - conflict_penalty * Reranked(a).conflict_count)
              /\ (\E b \in 1..Len(rr.results) : <<a, b>> \in ConflictingPairs)
                     => Reranked(a).final_score * 100 <= Reranked(a).weighted_sum * 100 * 95

\* ---------------------------------------------------------------------
\* Truncation when a budget is filled (_fill_context_window)
\* ---------------------------------------------------------------------

\* the estimated tokens of the entries before the i-th
RECURSIVE TokensBefore(_, _)
TokensBefore(es, i) ==
    IF i <= 1 THEN 0
    ELSE TokensBefore(es, i - 1) + estimate_tokens(es[i - 1].r.chars)

\* what remains of a budget when the i-th entry is reached
Remaining(es, i, budget) == available_tokens(budget, TokensBefore(es, i))

\* the first entry that does not fit into what remains of the budget
FirstMisfit(es, budget) ==
    {i \in 1..Len(es) :
        /\ estimate_tokens(es[i].r.chars) > Remaining(es, i, budget)
        /\ \A j \in 1..(i - 1) : estimate_tokens(es[j].r.chars) <= Remaining(es, j, budget)}

\* a window filled as the truncation rule says, 100 remaining tokens included
FilledAsStated(es, budget, chunks) ==
    /\ FirstMisfit(es, budget) = {} => Len(chunks) = Len(es)
    /\ \A i \in FirstMisfit(es, budget) :
          IF Remaining(es, i, budget) >= min_truncated_tokens
          THEN /\ Len(chunks) = i
               /\ chunks[i].truncated
               /\ chunks[i].token_count = Remaining(es, i, budget)
               /\ chunks[i].chars = Remaining(es, i, budget) * CHARS_PER_TOKEN + 3
          ELSE Len(chunks) = i - 1

\* C22: a chunk that does not fit is truncated to the remaining tokens with
\* an ellipsis and truncated=true whenever at least 100 tokens remain in the
\* budget (100 included) and is excluded otherwise; no later chunk is added.
C22_TruncateFromHundred ==
    (ca.pc = "returned" /\ ca.results # <<>>) =>
        LET cat == categorize_results(deduplicate_results(ca.results))
        IN  /\ FilledAsStated(cat.primary, PrimaryBudget(ca.max_tokens),
                              ca.context.primary_chunks)
            /\ FilledAsStated(cat.supporting, SupportingBudget(ca.max_tokens),
                              ca.context.supporting_chunks)

\* ---------------------------------------------------------------------
\* The status store (core/cache.py MessageStreamCache) beside the worker
\* ---------------------------------------------------------------------

\* generate_response_async: cache_key = f"message:{message_id}:result"
ResultKey(id) == <<"message", id, "result">>
\* MessageStreamCache.get_status: key = f"msg:{message_id}:status"
ReaderStatusKey(id) == <<"msg", id, "status">>

\* redis.get on a string key: the result key is the only string key a step
\* of the accept path, the worker or the endpoints writes
\* (MessageStreamCache.set_status and the task update_message_status have
\* no caller)
RedisGet(key) ==
    IF key = ResultKey(MsgId) /\ redisResult # NoCachedResult THEN redisResult ELSE NULL

\* MessageStreamCache.get_status: self.redis.get(key) or "pending"
get_status(message_id) ==
    LET value == RedisGet(ReaderStatusKey(message_id))
    IN  IF value = NULL THEN "pending" ELSE value

\* C23: every status transition the worker makes on the message (streaming,
\* complete, error) is written to the status store too: once the transition
\* is done, get_status gives the status of the message row.
C23_StatusStoreFollows ==
    (message.exists /\ wPc \in {"idle", "generate"}
        /\ message.status \in {"streaming", "complete", "error"})
        => get_status(MsgId) = message.status

\* ---------------------------------------------------------------------
\* Query expansion: QueryExpansionService.combine_variants
\* A text is its words in lower case, whether it holds an upper-case
\* letter, and whether it ends with a question mark.
\* ---------------------------------------------------------------------

\* the longest query, in words
MaxQueryWords == 3

QueryWords == {"what", "is", "how", "do", "why", "explain", "cats", "ab"}
\* the length of a word in characters, as far as the tests of the length need it
WordChars(w) == IF w = "ab" THEN 2 ELSE 3

Text(words, upper, mark) == [words |-> words, upper |-> upper, mark |-> mark]

\* GenerateMessageRequest.query, min_length=1
UserQueries(n) ==
    {Text(words, upper, mark) :
        words \in UNION {[1..k -> QueryWords] : k \in 1..n},
        upper \in BOOLEAN, mark \in BOOLEAN}

RECURSIVE SumChars(_)
SumChars(words) ==
    IF words = <<>> THEN 0 ELSE WordChars(words[1]) + SumChars(Tail(words))

\* len(user_query.strip())
StrippedLen(t) == SumChars(t.words) + (Len(t.words) - 1) + (IF t.mark THEN 1 ELSE 0)

\* str.lower()
Lower(t) == [t EXCEPT !.upper = FALSE]

\* v.lower().strip('?').strip()
DedupKey(t) == Text(t.words, FALSE, FALSE)

\* the text after its first n words; empty when nothing follows them
DropWords(t, n) == Text(SubSeq(t.words, n + 1, Len(t.words)), t.upper, t.mark)

\* startswith(prefix + " ") on the lower-cased query
StartsWith(t, prefix) ==
    /\ Len(t.words) > Len(prefix)
    /\ SubSeq(t.words, 1, Len(prefix)) = prefix

\* the first occurrence of every dedup key is kept
RECURSIVE UniqueVariants(_, _)
UniqueVariants(vs, seen) ==
    IF vs = <<>> THEN <<>>
    ELSE IF DedupKey(vs[1]) \in seen
         THEN UniqueVariants(Tail(vs), seen)
         ELSE <<vs[1]>> \o UniqueVariants(Tail(vs), seen \cup {DedupKey(vs[1])})

FirstN(vs, n) == SubSeq(vs, 1, IF Len(vs) < n THEN Len(vs) ELSE n)

\* expand_query_simple(user_query, max_variants): the rule-based expansion
expand_query_simple(user_query, max_variants) ==
    LET query_lower == Lower(user_query)
        v1 == IF StartsWith(query_lower, <<"what", "is">>)
              THEN <<DropWords(query_lower, 2)>> ELSE <<>>
        v2 == IF StartsWith(query_lower, <<"how", "do">>)
              THEN <<DropWords(query_lower, 2)>> ELSE <<>>
        v3 == IF StartsWith(query_lower, <<"why">>)
              THEN <<DropWords(query_lower, 1)>> ELSE <<>>
        \* f"Explain {user_query.lower().rstrip('?')}"
        v4 == IF query_lower.words[1] # "explain"
              THEN <<Text(<<"explain">> \o query_lower.words, TRUE, FALSE)>> ELSE <<>>
    IN  FirstN(UniqueVariants(<<user_query>> \o v1 \o v2 \o v3 \o v4, {}), max_variants)

\* the lines of the LLM's answer that hold a question mark: none, a
\* paraphrase, or the question itself in lower case
LlmAnswers(user_query) ==
    {<<>>,
     <<Text(<<"cats", "how">>, TRUE, TRUE)>>,
     <<Text(user_query.words, FALSE, TRUE), Text(<<"cats", "how">>, TRUE, TRUE)>>}

\* expand_query(user_query, max_variants) returning the variants; every
\* exception is caught inside and answered with the original query alone
expand_query_llm(user_query, max_variants, loop, running, answer) ==
    IF StrippedLen(user_query) < min_expand_chars \/ Len(user_query.words) < min_expand_words
    THEN <<user_query>>
    ELSE LET r == call_llm(loop, running)
             variants == FirstN(answer, max_variants - 1)
         IN  IF r.raised \/ variants = <<>>
             THEN <<user_query>>
             ELSE FirstN(<<user_query>> \o variants, max_variants)

\* combine_variants(original_query, use_llm=True, max_variants=4): the
\* except branch is dead, expand_query raises nothing
combine_variants(original_query, use_llm, max_variants, loop, running, answer) ==
    IF use_llm
    THEN expand_query_llm(original_query, max_variants, loop, running, answer)
    ELSE expand_query_simple(original_query, max_variants)

\* one call of combine_variants: hybrid_search calls combine_variants(query)
\* on the running loop of the pipeline; synchronous code calls it on an
\* idle loop
InitExpand ==
    /\ InitFabric
    /\ gen = Off /\ hs = Off /\ ca = Off /\ cv = Off /\ rg = Off
    /\ rr = Off /\ cx = Off
    /\ \E q \in UserQueries(MaxQueryWords), loop \in EventLoops, running \in BOOLEAN :
          \E answer \in LlmAnswers(q) :
              qe = [pc |-> "called", query |-> q, loop |-> loop, running |-> running,
                    answer |-> answer, variants |-> <<>>]

QE_Combine ==
    /\ qe.pc = "called"
    /\ qe' = [qe EXCEPT !.pc = "returned",
                        !.variants = combine_variants(qe.query, TRUE, 4, qe.loop,
                                                      qe.running, qe.answer)]
    /\ UNCHANGED <<fabricVars, gen, hs, ca, cv, rg, rr, cx>>

NextExpand == QE_Combine
SpecExpand == InitExpand /\ [][NextExpand]_vars

\* the paraphrase call failed, or returned no usable line
LlmFailed == call_llm(qe.loop, qe.running).raised \/ qe.answer = <<>>

\* C24: combine_variants returns the original query as variant #0 and
\* case-insensitively distinct variants, and when the paraphrase call fails
\* or the query has fewer than 3 words the variants are those of the
\* rule-based expansion, not the original query alone.
C24_RuleBasedFallback ==
    qe.pc = "returned" =>
        /\ qe.variants # <<>> /\ qe.variants[1] = qe.query
        /\ \A i, j \in 1..Len(qe.variants) :
              i # j => DedupKey(qe.variants[i]) # DedupKey(qe.variants[j])
        /\ (LlmFailed \/ Len(qe.query.words) < min_expand_words)
              => qe.variants = expand_query_simple(qe.query, 4)

\* ---------------------------------------------------------------------
\* Verification with strict_mode=False
\* ---------------------------------------------------------------------

\* length of the response verified without strict mode, in lexical units
MaxLenientLen == 3

\* verify_response called with strict_mode=False on a packet and an answer
InitLenient ==
    /\ InitFabric
    /\ gen = Off /\ hs = Off /\ ca = Off /\ rg = Off /\ OtherServicesOff
    /\ \E context \in Packets, t \in Responses(MaxLenientLen), overlap \in Overlaps,
          makes_claims \in BOOLEAN :
        cv = [pc |-> "assembled", context |-> context, response_text |-> t,
              overlap |-> overlap, makes_claims |-> makes_claims,
              strict_mode |-> FALSE,
              prompt |-> <<>>, result |-> NoVerification]

SpecLenient == InitLenient /\ [][NextVerify]_vars

\* C25: hallucination signals are raised in strict mode only: verification
\* with strict=false gives has_hallucinations=false and no hallucination
\* details, whatever the response cites or claims.
C25_LenientRaisesNothing ==
    (cv.pc = "verified" /\ ~cv.strict_mode) =>
        /\ ~cv.result.has_hallucinations
        /\ cv.result.hallucination_details = <<>>

\* ---------------------------------------------------------------------
\* The regenerate endpoint beside the accept path and the worker
\* ---------------------------------------------------------------------

\* POST /messages/{message_id}/regenerate for the assistant message of the
\* job (api/conversations.py regenerate_message): regenerate_response finds
\* the row by id and role, whatever its status, and the user message that
\* send_message created before it; it runs the pipeline with
\* save_message=False, assigns the result to the row and commits. The
\* status is not assigned.
R_Regenerate ==
    /\ rg = Off
    /\ message.exists
    /\ \E searchEmpty \in BOOLEAN, llmOk \in BOOLEAN :
          LET new_response == GenerateResponse(searchEmpty, llmOk, TRUE)
          IN  message' = [message EXCEPT !.content = new_response.content,
                                         !.sources = new_response.sources,
                                         !.citations = new_response.citations,
                                         !.tokens_used = new_response.tokens_used]
    /\ rg' = [pc |-> "regenerated"]
    /\ UNCHANGED <<rows, conversation, acceptVars, job, workerVars, redisList,
                   redisResult, hist, poll, ws>>
    /\ UNCHANGED <<gen, hs, ca, cv, otherServices>>

NextRace == Accept \/ Worker \/ R_Regenerate
SpecRace == Init /\ [][NextRace]_vars

\* content, sources, citations, metrics and status of the message row
ResultFields(m) == <<m.content, m.sources, m.citations, m.tokens_used, m.status>>

\* C26: once the assistant message is created and its job enqueued, only
\* the worker executing the job changes content, sources, citations, metrics
\* or status of the message; no HTTP handler does.
C26_WorkerSoleWriter ==
    [][(enqueued >= 1 /\ ResultFields(message') # ResultFields(message))
          => wPc' # wPc]_vars

\* the accept path has counted the user's message
AcceptCounted == IF aPc \in {"idle", "created"} THEN 0 ELSE 1

\* C27: however often the job of one message is executed (retry after a
\* failure that follows the commit, redelivery after a crash), the
\* conversation's message_count grows by exactly 1 for the assistant message
\* and its token_usage by the tokens_used of exactly one response.
C27_StatisticsCountedOnce ==
    /\ conversation.message_count
           = AcceptCounted + (IF hist.completes >= 1 THEN 1 ELSE 0)
    /\ conversation.token_usage
           \in (IF hist.completes >= 1
                THEN {r.tokens_used : r \in FinalResults} ELSE {0})

\* ---------------------------------------------------------------------
\* Progress of a message under fair scheduling
\* ---------------------------------------------------------------------

\* the steps of the worker process that is not lost
WorkerRuns == W_Start \/ W_Generate \/ W_Commit \/ W_Cache \/ W_Return \/ W_Except

\* the handler runs to its end, the broker delivers every queued job and
\* the worker executes what it has taken; losing a worker is not forced
NextLive == Accept \/ Worker
SpecLive == Init /\ [][NextLive]_vars /\ WF_vars(Accept) /\ WF_vars(WorkerRuns)

\* C30: every assistant message persisted with status pending eventually
\* reaches complete or error under fair scheduling of broker and worker,
\* also when the enqueue fails after the commit or the record of the error
\* status fails; no message stays pending or streaming for ever.
C30_PendingReachesTerminal ==
    (message.exists /\ message.status \in {"pending", "streaming"})
        ~> (message.status \in Terminal)

\* ---------------------------------------------------------------------
\* Conflicts in the assembler: steps 2 and 9 of assemble_context
\* (_deduplicate_results, _extract_conflicts, _summarize_conflicts).
\* Chunk ids are numbers whose order is the order of the ids as strings.
\* ---------------------------------------------------------------------

\* the longest result list with conflict pointers
MaxConflictResults == 3

summary_pairs == 3

\* the elements of a set of numbers in ascending order
RECURSIVE Ascending(_)
Ascending(S) ==
    IF S = {} THEN <<>>
    ELSE LET m == CHOOSE x \in S : \A y \in S : x <= y
         IN  <<m>> \o Ascending(S \ {m})

\* the result lists the assembler's interface admits: SearchResult rows of
\* distinct chunk ids in any order, each listing in `conflicts` ids of other
\* results of the list (in one direction, as _detect_conflicts leaves them,
\* or in both, as the reranker's contract describes them); two results of
\* one signature are near-duplicates
ConflictInputs(n) ==
    UNION {
        {[i \in 1..k |->
            [chunk_id |-> ids[i], resource_id |-> ids[i], score |-> 1,
             sig |-> sigs[i], chars |-> 160, final_score |-> 80,
             conflicts |-> Ascending(ptrs[i] \ {ids[i]})]] :
           ids \in {f \in [1..k -> 1..k] : \A a, b \in 1..k : a # b => f[a] # f[b]},
           sigs \in [1..k -> Signatures],
           ptrs \in [1..k -> SUBSET (1..k)]}
        : k \in 1..n}

\* next((r for r in results if r.chunk_id == conflict_id), None)
Found(results, conflict_id) == \E i \in 1..Len(results) : results[i].chunk_id = conflict_id

\* tuple(sorted([result.chunk_id, conflict_id], key=str))
SortedPair(a, b) == IF a <= b THEN <<a, b>> ELSE <<b, a>>

\* the pairs a result adds: for each of its pointers whose target is in the
\* list, the pair (result, conflicting) unless the sorted pair of ids is
\* among the pairs (c[0].chunk_id, c[1].chunk_id) already collected
RECURSIVE PairsOf(_, _, _, _)
PairsOf(results, result, pointers, conflicts) ==
    IF pointers = <<>> THEN conflicts
    ELSE LET conflict_id == pointers[1]
             pair == SortedPair(result.chunk_id, conflict_id)
         IN  IF Found(results, conflict_id) /\ pair \notin Range(conflicts)
             THEN PairsOf(results, result, Tail(pointers),
                          Append(conflicts, <<result.chunk_id, conflict_id>>))
             ELSE PairsOf(results, result, Tail(pointers), conflicts)

RECURSIVE ExtractFrom(_, _, _)
ExtractFrom(results, i, conflicts) ==
    IF i > Len(results) THEN conflicts
    ELSE ExtractFrom(results, i + 1,
                     PairsOf(results, results[i], results[i].conflicts, conflicts))

\* _extract_conflicts(results): the pairs (result, conflicting), by chunk id
extract_conflicts(results) == ExtractFrom(results, 1, <<>>)

\* _summarize_conflicts: a line per pair for the first three pairs (the
\* title of a resource stands for its id) and the number of further pairs
summarize_conflicts(conflicts) ==
    [lines |-> FirstN(conflicts, summary_pairs),
     more |-> IF Len(conflicts) > summary_pairs THEN Len(conflicts) - summary_pairs ELSE 0]

NoSummary == [lines |-> <<>>, more |-> 0]

\* assemble_context(results, ..., deduplicate=True): the packet with its
\* conflict flag and summary
assemble_with_conflicts(results, max_tokens) ==
    LET kept == deduplicate_results(results)
        conflicts == extract_conflicts(kept)
    IN  [packet |-> assemble_context(results, max_tokens),
         has_conflicts |-> conflicts # <<>>,
         conflicts |-> conflicts,
         conflict_summary |-> IF conflicts # <<>> THEN summarize_conflicts(conflicts)
                              ELSE NoSummary]

InitConflicts ==
    /\ InitFabric
    /\ gen = Off /\ hs = Off /\ ca = Off /\ cv = Off /\ rg = Off
    /\ rr = Off /\ qe = Off
    /\ \E rs \in ConflictInputs(MaxConflictResults) :
        cx = [pc |-> "called", results |-> rs, max_tokens |-> 4000,
              context |-> [packet |-> EmptyContext, has_conflicts |-> FALSE,
                           conflicts |-> <<>>, conflict_summary |-> NoSummary]]

CX_Assemble ==
    /\ cx.pc = "called"
    /\ cx' = [cx EXCEPT !.pc = "returned",
                        !.context = assemble_with_conflicts(cx.results, cx.max_tokens)]
    /\ UNCHANGED <<fabricVars, gen, hs, ca, cv, rg, rr, qe>>

NextConflicts == CX_Assemble
SpecConflicts == InitConflicts /\ [][NextConflicts]_vars

====
